---- MODULE Spec2Model ----
(***************************************************************************)
(* Model of the chess move-selection engine of chess-bot/chess-simulator.cpp *)
(* (iterative-deepening PVS search, quiescence, transposition table, move  *)
(* ordering and static evaluation) over a model of the board library it    *)
(* calls into.                                                             *)
(***************************************************************************)
EXTENDS Integers, Sequences, FiniteSets, TLC

(***************************************************************************)
(* The board library (chess.hpp), modelled from its contract: squares are  *)
(* 0..63 with a1 = 0 and h8 = 63, pieces are FEN letters, "." is NONE.     *)
(***************************************************************************)
Squares == 0..63

FileOf(s) == s % 8

RankOf(s) == s \div 8

SqAt(f, r) == r * 8 + f

OnBoard(f, r) == f >= 0 /\ f < 8 /\ r >= 0 /\ r < 8

WhitePieces == {"P", "N", "B", "R", "Q", "K"}

BlackPieces == {"p", "n", "b", "r", "q", "k"}

ColorOf(p) == IF p \in WhitePieces THEN "w" ELSE IF p \in BlackPieces THEN "b" ELSE "-"

Opp(c) == IF c = "w" THEN "b" ELSE "w"

\* the piece of colour c with the type of the white piece letter t
PieceOf(c, t) ==
    IF c = "w" THEN t
    ELSE CASE t = "P" -> "p" [] t = "N" -> "n" [] t = "B" -> "b"
           [] t = "R" -> "r" [] t = "Q" -> "q" [] t = "K" -> "k"

TypeOf(p) ==
    CASE p \in {"P", "p"} -> "P" [] p \in {"N", "n"} -> "N" [] p \in {"B", "b"} -> "B"
      [] p \in {"R", "r"} -> "R" [] p \in {"Q", "q"} -> "Q" [] p \in {"K", "k"} -> "K"
      [] OTHER -> "."

\* chess::Move: from, to, type (NORMAL / PROMOTION / ENPASSANT) and promotion piece
MkMove(f, t, k, p) == [from |-> f, to |-> t, kind |-> k, promo |-> p]

\* chess::Move(): the value of a default-constructed (zero) move
NoMove == MkMove(0, 0, "normal", ".")

\* chess::Board(fen): placement, side to move, en-passant square, undo stack
MkBoard(placement, stm) ==
    [sq |-> [s \in Squares |-> IF s \in DOMAIN placement THEN placement[s] ELSE "."],
     stm |-> stm, ep |-> -1, prev |-> <<>>]

At(board, s) == board.sq[s]

SideToMove(board) == board.stm

IsCapture(board, m) == At(board, m.to) # "." \/ m.kind = "ep"

KnightSteps == {<<1, 2>>, <<2, 1>>, <<2, -1>>, <<1, -2>>, <<-1, -2>>, <<-2, -1>>, <<-2, 1>>, <<-1, 2>>}

KingSteps == {<<1, 0>>, <<1, 1>>, <<0, 1>>, <<-1, 1>>, <<-1, 0>>, <<-1, -1>>, <<0, -1>>, <<1, -1>>}

RookDirs == {<<1, 0>>, <<0, 1>>, <<-1, 0>>, <<0, -1>>}

BishopDirs == {<<1, 1>>, <<-1, 1>>, <<-1, -1>>, <<1, -1>>}

\* the squares a slider on s reaches along direction d: up to and including
\* the first occupied square
RECURSIVE Ray(_, _, _, _)
Ray(sq, f, r, d) ==
    LET nf == f + d[1]
        nr == r + d[2]
    IN IF ~OnBoard(nf, nr) THEN {}
       ELSE IF sq[SqAt(nf, nr)] # "." THEN {SqAt(nf, nr)}
       ELSE {SqAt(nf, nr)} \cup Ray(sq, nf, nr, d)

StepTargets(s, steps) ==
    {SqAt(FileOf(s) + d[1], RankOf(s) + d[2]) :
        d \in {e \in steps : OnBoard(FileOf(s) + e[1], RankOf(s) + e[2])}}

SlideTargets(sq, s, dirs) == UNION {Ray(sq, FileOf(s), RankOf(s), d) : d \in dirs}

Forward(c) == IF c = "w" THEN 1 ELSE -1

\* the squares the pawn of colour c on s attacks
PawnAttacks(s, c) == StepTargets(s, {<<-1, Forward(c)>>, <<1, Forward(c)>>})

\* the squares the piece on s attacks (own pieces included)
Attacks(sq, s) ==
    LET p == sq[s]
        t == TypeOf(p)
    IN CASE t = "P" -> PawnAttacks(s, ColorOf(p))
         [] t = "N" -> StepTargets(s, KnightSteps)
         [] t = "K" -> StepTargets(s, KingSteps)
         [] t = "B" -> SlideTargets(sq, s, BishopDirs)
         [] t = "R" -> SlideTargets(sq, s, RookDirs)
         [] t = "Q" -> SlideTargets(sq, s, RookDirs \cup BishopDirs)
         [] OTHER -> {}

IsAttacked(sq, target, by) ==
    \E s \in Squares : ColorOf(sq[s]) = by /\ target \in Attacks(sq, s)

KingSquare(sq, c) == CHOOSE s \in Squares : sq[s] = PieceOf(c, "K")

InCheck(board) ==
    IsAttacked(board.sq, KingSquare(board.sq, board.stm), Opp(board.stm))

\* the square of the pawn an en-passant capture to square t removes
EpVictim(t, mover) == t - 8 * Forward(mover)

\* Board::makeMove: apply the move, push the undo record
MakeMove(board, m) ==
    LET p == board.sq[m.from]
        c == board.stm
        captured == IF m.kind = "ep" THEN PieceOf(Opp(c), "P") ELSE board.sq[m.to]
        placed == IF m.kind = "promo" THEN PieceOf(c, m.promo) ELSE p
        sq1 == [board.sq EXCEPT ![m.from] = ".", ![m.to] = placed]
        sq2 == IF m.kind = "ep" THEN [sq1 EXCEPT ![EpVictim(m.to, c)] = "."] ELSE sq1
        double == TypeOf(p) = "P" /\ (m.to - m.from = 16 \/ m.from - m.to = 16)
        epsq == (m.from + m.to) \div 2
        newep == IF double /\ \E s \in PawnAttacks(epsq, c) : sq2[s] = PieceOf(Opp(c), "P")
                 THEN epsq ELSE -1
    IN [sq |-> sq2, stm |-> Opp(c), ep |-> newep,
        prev |-> Append(board.prev, [captured |-> captured, ep |-> board.ep])]

\* Board::unmakeMove: reverse the move from the top undo record
UnmakeMove(board, m) ==
    LET top == board.prev[Len(board.prev)]
        c == Opp(board.stm)
        moved == IF m.kind = "promo" THEN PieceOf(c, "P") ELSE board.sq[m.to]
        sq1 == [board.sq EXCEPT ![m.from] = moved,
                                ![m.to] = IF m.kind = "ep" THEN "." ELSE top.captured]
        sq2 == IF m.kind = "ep" THEN [sq1 EXCEPT ![EpVictim(m.to, c)] = top.captured] ELSE sq1
    IN [sq |-> sq2, stm |-> c, ep |-> top.ep,
        prev |-> SubSeq(board.prev, 1, Len(board.prev) - 1)]

\* Board::makeNullMove: pass the turn, push the undo record
MakeNullMove(board) ==
    [board EXCEPT !.stm = Opp(board.stm), !.ep = -1,
                  !.prev = Append(board.prev, [captured |-> ".", ep |-> board.ep])]

\* Board::unmakeNullMove
UnmakeNullMove(board) ==
    [board EXCEPT !.stm = Opp(board.stm), !.ep = board.prev[Len(board.prev)].ep,
                  !.prev = SubSeq(board.prev, 1, Len(board.prev) - 1)]

\* a set of squares as the ascending sequence the generator walks
RECURSIVE AscSeq(_)
AscSeq(S) ==
    IF S = {} THEN <<>>
    ELSE LET lo == CHOOSE x \in S : \A y \in S : x <= y
         IN <<lo>> \o AscSeq(S \ {lo})

RECURSIVE Concat(_)
Concat(ss) == IF ss = <<>> THEN <<>> ELSE Head(ss) \o Concat(Tail(ss))

PromoTypes == <<"Q", "R", "B", "N">>

\* the pseudo-legal moves of the pawn on s
PawnMoves(board, s) ==
    LET c == board.stm
        fw == Forward(c)
        f == FileOf(s)
        r == RankOf(s)
        lastRank == IF c = "w" THEN 7 ELSE 0
        startRank == IF c = "w" THEN 1 ELSE 6
        one == SqAt(f, r + fw)
        pushes == IF OnBoard(f, r + fw) /\ board.sq[one] = "."
                  THEN {one} \cup (IF r = startRank /\ board.sq[SqAt(f, r + 2 * fw)] = "."
                                   THEN {SqAt(f, r + 2 * fw)} ELSE {})
                  ELSE {}
        caps == {t \in PawnAttacks(s, c) : ColorOf(board.sq[t]) = Opp(c)}
        eps == {t \in PawnAttacks(s, c) : t = board.ep}
        Plain(t) == IF RankOf(t) = lastRank
                    THEN [i \in 1..4 |-> MkMove(s, t, "promo", PromoTypes[i])]
                    ELSE <<MkMove(s, t, "normal", ".")>>
        seqPlain == AscSeq(pushes \cup caps)
        seqEp == AscSeq(eps)
    IN Concat([i \in 1..Len(seqPlain) |-> Plain(seqPlain[i])])
       \o [i \in 1..Len(seqEp) |-> MkMove(s, seqEp[i], "ep", ".")]

\* the pseudo-legal moves of the piece on s
PieceMoves(board, s) ==
    IF TypeOf(board.sq[s]) = "P" THEN PawnMoves(board, s)
    ELSE LET ts == AscSeq({t \in Attacks(board.sq, s) : ColorOf(board.sq[t]) # board.stm})
         IN [i \in 1..Len(ts) |-> MkMove(s, ts[i], "normal", ".")]

\* a pseudo-legal move is legal when it does not leave the mover's king attacked
LeavesKingSafe(board, m) ==
    LET after == MakeMove(board, m).sq
    IN ~IsAttacked(after, KingSquare(after, board.stm), Opp(board.stm))

GenOrder == <<"K", "P", "N", "B", "R", "Q">>

\* movegen::legalmoves: king moves first, then pawns, knights, bishops, rooks,
\* queens, each from the lowest square up
LegalMoves(board) ==
    LET OfType(t) == AscSeq({s \in Squares : board.sq[s] = PieceOf(board.stm, t)})
        Pseudo(t) == LET fs == OfType(t)
                     IN Concat([i \in 1..Len(fs) |-> PieceMoves(board, fs[i])])
        all == Concat([i \in 1..6 |-> Pseudo(GenOrder[i])])
    IN SelectSeq(all, LAMBDA m : LeavesKingSafe(board, m))

\* Board::isInsufficientMaterial: bare kings, or a single minor piece
IsInsufficientMaterial(board) ==
    LET others == {s \in Squares : TypeOf(board.sq[s]) \notin {".", "K"}}
    IN \/ others = {}
       \/ /\ Cardinality(others) = 1
          /\ \A s \in others : TypeOf(board.sq[s]) \in {"N", "B"}

\* Board::isGameOver().second: "NONE", "DRAW" or "LOSE" (the side to move is mated)
IsGameOver(board) ==
    IF IsInsufficientMaterial(board) THEN "DRAW"
    ELSE IF LegalMoves(board) = <<>>
         THEN (IF InCheck(board) THEN "LOSE" ELSE "DRAW")
         ELSE "NONE"

PieceIndex(p) ==
    CASE p = "P" -> 0 [] p = "N" -> 1 [] p = "B" -> 2 [] p = "R" -> 3 [] p = "Q" -> 4
      [] p = "K" -> 5 [] p = "p" -> 6 [] p = "n" -> 7 [] p = "b" -> 8 [] p = "r" -> 9
      [] p = "q" -> 10 [] p = "k" -> 11

HashRange == 16777213

ZobristKey(n) == (n * n * 31 + n * 17 + 7) % HashRange

\* Board::hash(): a key per (piece, square), per side to move and per
\* en-passant square, combined into one number
Hash(board) ==
    LET occ == AscSeq({s \in Squares : board.sq[s] # "."})
        K[i \in 0..Len(occ)] ==
            IF i = 0 THEN 0
            ELSE (K[i - 1] + ZobristKey(PieceIndex(board.sq[occ[i]]) * 64 + occ[i] + 1)) % HashRange
    IN (K[Len(occ)] + (IF board.stm = "b" THEN ZobristKey(800) ELSE 0)
                    + (IF board.ep >= 0 THEN ZobristKey(900 + board.ep) ELSE 0)) % HashRange

FileNames == <<"a", "b", "c", "d", "e", "f", "g", "h">>

RankNames == <<"1", "2", "3", "4", "5", "6", "7", "8">>

PromoLetter(t) == CASE t = "Q" -> "q" [] t = "R" -> "r" [] t = "B" -> "b" [] t = "N" -> "n"

\* uci::moveToUci: the characters of the coordinate notation
MoveToUci(m) ==
    <<FileNames[FileOf(m.from) + 1], RankNames[RankOf(m.from) + 1],
      FileNames[FileOf(m.to) + 1], RankNames[RankOf(m.to) + 1]>>
    \o (IF m.kind = "promo" THEN <<PromoLetter(m.promo)>> ELSE <<>>)

(***************************************************************************)
(* chess-simulator.cpp: constants, piece-square tables and the evaluator.  *)
(***************************************************************************)
INF == 1000000

MATE_SCORE == 100000

MAX_DEPTH == 5

TT_SIZE == 4194304

knightPST ==
    <<-50,-40,-30,-30,-30,-30,-40,-50,
      -40,-20,  0,  0,  0,  0,-20,-40,
      -30,  0, 10, 15, 15, 10,  0,-30,
      -30,  5, 15, 20, 20, 15,  5,-30,
      -30,  0, 15, 20, 20, 15,  0,-30,
      -30,  5, 10, 15, 15, 10,  5,-30,
      -40,-20,  0,  5,  5,  0,-20,-40,
      -50,-40,-30,-30,-30,-30,-40,-50>>

pawnPST ==
    << 0,  0,  0,  0,  0,  0,  0,  0,
       5, 10, 10,-20,-20, 10, 10,  5,
       5, -5,-10,  0,  0,-10, -5,  5,
       0,  0,  0, 20, 20,  0,  0,  0,
       5,  5, 10, 25, 25, 10,  5,  5,
      10, 10, 20, 30, 30, 20, 10, 10,
      50, 50, 50, 50, 50, 50, 50, 50,
       0,  0,  0,  0,  0,  0,  0,  0>>

bishopPST ==
    <<-20,-10,-10,-10,-10,-10,-10,-20,
      -10,  5,  0,  0,  0,  0,  5,-10,
      -10, 10, 10, 10, 10, 10, 10,-10,
      -10,  0, 10, 10, 10, 10,  0,-10,
      -10,  5,  5, 10, 10,  5,  5,-10,
      -10,  0,  5, 10, 10,  5,  0,-10,
      -10,  0,  0,  0,  0,  0,  0,-10,
      -20,-10,-10,-10,-10,-10,-10,-20>>

rookPST ==
    << 0,  0,  5, 10, 10,  5,  0,  0,
      -5,  0,  0,  0,  0,  0,  0, -5,
      -5,  0,  0,  0,  0,  0,  0, -5,
      -5,  0,  0,  0,  0,  0,  0, -5,
      -5,  0,  0,  0,  0,  0,  0, -5,
      -5,  0,  0,  0,  0,  0,  0, -5,
       5, 10, 10, 10, 10, 10, 10,  5,
       0,  0,  5, 10, 10,  5,  0,  0>>

queenPST ==
    <<-20,-10,-10, -5, -5,-10,-10,-20,
      -10,  0,  0,  0,  0,  0,  0,-10,
      -10,  0,  5,  5,  5,  5,  0,-10,
       -5,  0,  5,  5,  5,  5,  0, -5,
        0,  0,  5,  5,  5,  5,  0, -5,
      -10,  5,  5,  5,  5,  5,  0,-10,
      -10,  0,  5,  0,  0,  0,  0,-10,
      -20,-10,-10, -5, -5,-10,-10,-20>>

pieceValue(p) ==
    CASE TypeOf(p) = "P" -> 100
      [] TypeOf(p) = "N" -> 320
      [] TypeOf(p) = "B" -> 330
      [] TypeOf(p) = "R" -> 500
      [] TypeOf(p) = "Q" -> 900
      [] OTHER -> 0

\* the sum of f[s] over the occupied squares of the board (an empty square
\* contributes nothing to any term)
SumOver(S, f) ==
    LET q == AscSeq(S)
        A[i \in 0..Len(q)] == IF i = 0 THEN 0 ELSE A[i - 1] + f[q[i]]
    IN A[Len(q)]

Occupied(board) == {s \in Squares : board.sq[s] # "."}

evaluateMaterial(board) ==
    SumOver(Occupied(board),
            [s \in Squares |-> IF ColorOf(board.sq[s]) = "w"
                               THEN pieceValue(board.sq[s])
                               ELSE -pieceValue(board.sq[s])])

\* faulty variant: the null move is not taken back
evaluateMobilityRunNoUnmake(board) ==
    LET whiteMoves == LegalMoves(board)
        whiteMob == IF SideToMove(board) = "w" THEN Len(whiteMoves) ELSE 0
        b1 == MakeNullMove(board)
        blackMoves == LegalMoves(b1)
        blackMob == IF SideToMove(b1) = "b" THEN Len(blackMoves) ELSE 0
    IN [score |-> (whiteMob - blackMob) * 2, board |-> b1]

\* evaluateMobility, l.151-172: the mobility term and the board it leaves behind
evaluateMobilityRun(board) ==
    LET whiteMoves == LegalMoves(board)
        whiteMob == IF SideToMove(board) = "w" THEN Len(whiteMoves) ELSE 0
        b1 == MakeNullMove(board)
        blackMoves == LegalMoves(b1)
        blackMob == IF SideToMove(b1) = "b" THEN Len(blackMoves) ELSE 0
        b2 == UnmakeNullMove(b1)
    IN [score |-> (whiteMob - blackMob) * 2, board |-> b2]

evaluateMobility(board) == evaluateMobilityRun(board).score

evaluateKingSafety(board) ==
    LET Shield(s, c) ==
            Cardinality({df \in {-1, 0, 1} :
                /\ OnBoard(FileOf(s) + df, RankOf(s) + Forward(c))
                /\ board.sq[SqAt(FileOf(s) + df, RankOf(s) + Forward(c))] = PieceOf(c, "P")})
    IN SumOver(Occupied(board),
               [s \in Squares |-> IF board.sq[s] = "K" THEN 15 * Shield(s, "w")
                                  ELSE IF board.sq[s] = "k" THEN -15 * Shield(s, "b")
                                  ELSE 0])

evaluatePawnStructure(board) ==
    LET Count(file, p) == Cardinality({r \in 0..7 : board.sq[SqAt(file, r)] = p})
        doubled == SumOver(0..7,
            [file \in 0..7 |->
                (IF Count(file, "P") > 1 THEN -15 * (Count(file, "P") - 1) ELSE 0)
              + (IF Count(file, "p") > 1 THEN 15 * (Count(file, "p") - 1) ELSE 0)])
        Ahead(s, c) == IF c = "w" THEN (RankOf(s) + 1)..7 ELSE 0..(RankOf(s) - 1)
        Passed(s, c) ==
            \A r \in Ahead(s, c) : \A f \in (FileOf(s) - 1)..(FileOf(s) + 1) :
                OnBoard(f, r) => board.sq[SqAt(f, r)] # PieceOf(Opp(c), "P")
        passed == SumOver(Occupied(board),
            [s \in Squares |->
                IF board.sq[s] = "P" /\ Passed(s, "w") THEN RankOf(s) * 10
                ELSE IF board.sq[s] = "p" /\ Passed(s, "b") THEN -((7 - RankOf(s)) * 10)
                ELSE 0])
    IN doubled + passed

\* the table of a piece type; kings have none
PstOf(p) ==
    CASE TypeOf(p) = "P" -> pawnPST [] TypeOf(p) = "N" -> knightPST
      [] TypeOf(p) = "B" -> bishopPST [] TypeOf(p) = "R" -> rookPST
      [] TypeOf(p) = "Q" -> queenPST

evaluatePieceSquare(board) ==
    LET Bonus(s) == IF TypeOf(board.sq[s]) = "K" THEN 0
                    ELSE IF ColorOf(board.sq[s]) = "w" THEN PstOf(board.sq[s])[s + 1]
                    ELSE PstOf(board.sq[s])[(63 - s) + 1]
        whiteBishops == Cardinality({s \in Squares : board.sq[s] = "B"})
        blackBishops == Cardinality({s \in Squares : board.sq[s] = "b"})
    IN SumOver(Occupied(board),
               [s \in Squares |-> IF board.sq[s] = "." THEN 0
                                  ELSE IF ColorOf(board.sq[s]) = "w" THEN Bonus(s) ELSE -Bonus(s)])
       + (IF whiteBishops >= 2 THEN 30 ELSE 0)
       + (IF blackBishops >= 2 THEN -30 ELSE 0)

evaluateDevelopment(board) ==
    LET Pen(f, r, p, v) == IF board.sq[SqAt(f, r)] = p THEN v ELSE 0
    IN Pen(1, 0, "N", -15) + Pen(6, 0, "N", -15) + Pen(1, 7, "n", 15) + Pen(6, 7, "n", 15)
       + Pen(2, 0, "B", -15) + Pen(5, 0, "B", -15) + Pen(2, 7, "b", 15) + Pen(5, 7, "b", 15)

centerSquares == {27, 28, 35, 36}

evaluateCenterControl(board) ==
    SumOver(centerSquares,
            [s \in Squares |-> IF board.sq[s] = "P" THEN 20
                               ELSE IF board.sq[s] = "p" THEN -20 ELSE 0])

\* the sum of the terms from White's side, before the sign of the mover is applied
WhiteScore(board) ==
    evaluateMaterial(board) + evaluatePawnStructure(board) + evaluateMobility(board)
    + evaluateKingSafety(board) + evaluatePieceSquare(board)
    + evaluateDevelopment(board) + evaluateCenterControl(board)

\* evaluate: the score from the mover's side and the board it leaves behind
evaluateRun(board) ==
    LET after == evaluateMobilityRun(board).board
    IN [score |-> IF SideToMove(after) = "w" THEN WhiteScore(board) ELSE -WhiteScore(board),
        board |-> after]

evaluate(board) == evaluateRun(board).score

(***************************************************************************)
(* Transposition table, killer moves and history counters.  transTable is  *)
(* held as the entries of the slots written so far (used) and the entry    *)
(* every other slot holds (rest); historyHeuristic holds the counters that *)
(* have been written, every other counter being 0.                         *)
(***************************************************************************)
TTEntry(d, s, t) == [depth |-> d, score |-> s, type |-> t]

\* static storage is zero-initialised: depth 0, score 0, type EXACT (= 0)
ZeroTable == [used |-> <<>>, rest |-> TTEntry(0, 0, "EXACT")]

SlotOf(hash) == hash % TT_SIZE

probeTT(tt, hash) ==
    IF SlotOf(hash) \in DOMAIN tt.used THEN tt.used[SlotOf(hash)] ELSE tt.rest

\* faulty variant: an entry of equal depth is kept
storeAcceptsDeeper(entry, d) == entry.depth < d

\* storeTT, l.47: whether the entry of the slot is replaced
storeAccepts(entry, d) == entry.depth <= d

storeTT(tt, hash, d, s, t) ==
    IF storeAccepts(probeTT(tt, hash), d)
    THEN [tt EXCEPT !.used = (SlotOf(hash) :> TTEntry(d, s, t)) @@ tt.used]
    ELSE tt

\* faulty variant: the table is left as it is
clearTTSkip(tt) == tt

\* clearTT, l.55-59
clearTT(tt) ==
    [used |-> [i \in DOMAIN tt.used |-> [tt.used[i] EXCEPT !.depth = -1]],
     rest |-> [tt.rest EXCEPT !.depth = -1]]

KILLER_PLIES == 128

ZeroKillers == [p \in 0..(KILLER_PLIES - 1) |-> <<NoMove, NoMove>>]

HistoryAt(hist, side, from, to) ==
    IF <<side, from, to>> \in DOMAIN hist THEN hist[<<side, from, to>>] ELSE 0

SideIndex(board) == IF SideToMove(board) = "w" THEN 0 ELSE 1

Max(a, b) == IF a >= b THEN a ELSE b

Min(a, b) == IF a <= b THEN a ELSE b

(***************************************************************************)
(* Move ordering.                                                          *)
(***************************************************************************)
captureScore(board, m) == pieceValue(At(board, m.to)) - pieceValue(At(board, m.from))

scoreMove(board, m, ply, killers, hist) ==
    IF IsCapture(board, m) THEN 100000 + captureScore(board, m)
    ELSE IF m = killers[ply][1] THEN 90000
    ELSE IF m = killers[ply][2] THEN 80000
    ELSE HistoryAt(hist, SideIndex(board), m.from, m.to)

Reverse(q) == [i \in 1..Len(q) |-> q[Len(q) + 1 - i]]

\* faulty variant: the comparator is turned round, lowest priority first
orderMovesAscending(moves, board, ply, killers, hist, keep) ==
    LET src == IF keep THEN moves ELSE Reverse(moves)
        Key(m) == scoreMove(board, m, ply, killers, hist)
        Ins(q, m) ==
            LET k == Cardinality({i \in 1..Len(q) : Key(q[i]) <= Key(m)})
            IN SubSeq(q, 1, k) \o <<m>> \o SubSeq(q, k + 1, Len(q))
        S[i \in 0..Len(src)] == IF i = 0 THEN <<>> ELSE Ins(S[i - 1], src[i])
    IN S[Len(src)]

\* std::sort by descending scoreMove.  The order of moves of equal priority is
\* unspecified; keep is TRUE when they stay in generation order and FALSE
\* when they come out reversed.
orderMoves(moves, board, ply, killers, hist, keep) ==
    LET src == IF keep THEN moves ELSE Reverse(moves)
        Key(m) == scoreMove(board, m, ply, killers, hist)
        Ins(q, m) ==
            LET k == Cardinality({i \in 1..Len(q) : Key(q[i]) >= Key(m)})
            IN SubSeq(q, 1, k) \o <<m>> \o SubSeq(q, k + 1, Len(q))
        S[i \in 0..Len(src)] == IF i = 0 THEN <<>> ELSE Ins(S[i - 1], src[i])
    IN S[Len(src)]

(***************************************************************************)
(* The state of the program.                                               *)
(***************************************************************************)
VARIABLES
    transTable,         \* static TTEntry transTable[TT_SIZE]
    killerMoves,        \* static chess::Move killerMoves[128][2]
    historyHeuristic,   \* static int historyHeuristic[2][64][64]
    elapsed,            \* the clock: milliseconds since searchStart was set
    timeLimitMsGlobal,  \* static int timeLimitMsGlobal
    board,              \* the chess::Board of the running Move call
    pc,                 \* where the running Move call is
    root,               \* the locals of Move
    stack,              \* the locals of the active alphaBeta calls, innermost last
    qstack,             \* the locals of the active quiescence calls, innermost last
    call,               \* the arguments of the call being entered
    ret,                \* the value the last finished call returned
    result,             \* what the last Move call returned
    calls,              \* the number of Move calls made so far
    keepTies            \* how std::sort leaves moves of equal priority

vars == <<transTable, killerMoves, historyHeuristic, elapsed, timeLimitMsGlobal,
          board, pc, root, stack, qstack, call, ret, result, calls, keepTies>>

tables == <<transTable, killerMoves, historyHeuristic>>

\* faulty variant: the budget counts as exceeded only once it is passed
outOfTimeStrict == elapsed > timeLimitMsGlobal

\* outOfTime: elapsed >= timeLimitMsGlobal
outOfTime == elapsed >= timeLimitMsGlobal

\* one reading of the clock takes one unit of time
Tick == elapsed + 1

NoCall == [depth |-> 0, alpha |-> 0, beta |-> 0, ply |-> 0]

NoRoot == [fen |-> MkBoard(<<>>, "w"), limit |-> 0, moves |-> <<>>, bestMove |-> NoMove,
           depth |-> 0, alpha |-> 0, beta |-> 0, bestScore |-> 0, firstMove |-> FALSE,
           idx |-> 0, stage |-> "none", log |-> <<>>]

(***************************************************************************)
(* The positions and time budgets Move is called with.                     *)
(***************************************************************************)
MaxCalls == 2

MaxBudget == 40

ShortBudget == 3

FullBudget == 1000

\* time budgets in clock units: negative, zero, every budget that cuts the
\* search short within its first MaxBudget readings of the clock, and one
\* that is enough for the whole search
Budgets == (-1..MaxBudget) \cup {FullBudget}

\* 8/8/8/8/8/p7/P1k5/K7 w: White has no legal move and is not in check
Stalemated == MkBoard((0 :> "K") @@ (8 :> "P") @@ (16 :> "p") @@ (10 :> "k"), "w")

\* 5K1k/6Pp/8/8/8/8/8/8 b: Black is checkmated
Checkmated == MkBoard((61 :> "K") @@ (54 :> "P") @@ (63 :> "k") @@ (55 :> "p"), "b")

\* 5K1k/7p/6P1/8/8/8/8/8 w: g6g7 mates at once
MateInOne == MkBoard((61 :> "K") @@ (46 :> "P") @@ (63 :> "k") @@ (55 :> "p"), "w")

\* 7k/5K1p/p6P/8/8/8/8/8 b: a6a5 is the only legal move
SingleMove == MkBoard((53 :> "K") @@ (47 :> "P") @@ (63 :> "k") @@ (55 :> "p") @@ (40 :> "p"), "b")

\* 7k/8/4P2K/8/8/8/8/8 w: e6e7, Kg8, e7e8=Q mates in two
MateInTwo == MkBoard((47 :> "K") @@ (44 :> "P") @@ (63 :> "k"), "w")

\* 7k/8/3P3K/8/8/8/8/8 w: d6d7, Kg8, d7d8=Q, Kf7 ... mates in three
MateInThree == MkBoard((47 :> "K") @@ (43 :> "P") @@ (63 :> "k"), "w")

\* 8/8/8/8/8/6p1/7P/5k1K b: g3g2 mates at once, for Black
MateInOneBlack == MkBoard((5 :> "k") @@ (22 :> "p") @@ (7 :> "K") @@ (15 :> "P"), "b")

\* 7k/5Kp1/8/7P/8/8/8/8 b: after g7g5 White can take en passant; a
\* re-searched line meets lower bounds left by its own zero-window search
KingAndPawn == MkBoard((63 :> "k") @@ (54 :> "p") @@ (53 :> "K") @@ (39 :> "P"), "b")

Positions ==
    {Stalemated, Checkmated, MateInOne, MateInOneBlack, SingleMove, MateInTwo, MateInThree,
     KingAndPawn}

\* the calls explored: any position and budget for the first call; a further
\* call, with a budget up to ShortBudget or of MaxBudget, after a call that
\* had the full budget
Explored(limit) ==
    /\ calls < MaxCalls
    /\ calls > 0 => (root.limit = FullBudget /\ (limit <= ShortBudget \/ limit = MaxBudget))

(***************************************************************************)
(* ChessSimulator::Move, alphaBeta: the steps of a call.                   *)
(***************************************************************************)
\* Faulty variants of the definitions below.  Each property of the last section
\* fails when the definition it depends on is replaced by its variant.
initialBestNone(moves) == NoMove

noLegalMoveOffByOne(moves) == Len(moves) <= 1

terminalScoreFlat(over, ply) == 0

terminalScoreNoPly(over, ply) == IF over = "DRAW" THEN 0 ELSE -MATE_SCORE

rootImprovesOrTies(score, bestScore) == score >= bestScore

\* Move, l.596: no legal move at the root
noLegalMove(moves) == moves = <<>>

\* Move, l.602: the move returned when no root move completes
initialBest(moves) == moves[1]

\* Move, l.640: a completed root move replaces the best move
rootImproves(score, bestScore) == score > bestScore

\* alphaBeta, l.504-506: the score of a finished game
terminalScore(over, ply) == IF over = "DRAW" THEN 0 ELSE -MATE_SCORE + ply

\* faulty variant: quiescence searches every legal move
qSearchesAll(b, m) == TRUE

\* quiescence, l.476-477: only captures are searched
qSearches(b, m) == IsCapture(b, m)

\* faulty variant: the child is given its parent's ply
childPlySame(ply) == ply

\* alphaBeta, l.541-549: a child is searched one ply further from the root
childPly(ply) == ply + 1

\* faulty variant: the new killer overwrites slot 0 and slot 1 keeps its move
killerUpdateNoShift(killers, ply, move) ==
    [killers EXCEPT ![ply] = <<move, killers[ply][2]>>]

\* alphaBeta, l.564-565: the new killer enters slot 0, slot 0 moves to slot 1
killerUpdate(killers, ply, move) ==
    [killers EXCEPT ![ply] = <<move, killers[ply][1]>>]

\* faulty variant: the counter grows by the depth, not by its square
historyUpdateLinear(hist, key, depth) ==
    (key :> (HistoryAt(hist, key[1], key[2], key[3]) + depth)) @@ hist

\* alphaBeta, l.567-568: the counter of (side, from, to) grows by depth * depth
historyUpdate(hist, key, depth) ==
    (key :> (HistoryAt(hist, key[1], key[2], key[3]) + depth * depth)) @@ hist

\* faulty variant: captures are taken for killers too
isQuietAlways(b, move) == TRUE

\* alphaBeta, l.562: only non-captures enter the killer slots and the history
isQuiet(b, move) == ~IsCapture(b, move)

\* faulty variant: the stored depth is not looked at
ttUsableAnyDepth(tt, depth) == TRUE

\* alphaBeta, l.512: whether the probed entry is deep enough to be used
ttUsable(tt, depth) == tt.depth >= depth

\* faulty variant: a result equal to the original alpha is not an upper bound
nodeTypeStrict(bestScore, originalAlpha, beta) ==
    IF bestScore < originalAlpha THEN "UPPERBOUND"
    ELSE IF bestScore >= beta THEN "LOWERBOUND"
    ELSE "EXACT"

\* alphaBeta, l.576-582: the bound type stored with a node's score
nodeType(bestScore, originalAlpha, beta) ==
    IF bestScore <= originalAlpha THEN "UPPERBOUND"
    ELSE IF bestScore >= beta THEN "LOWERBOUND"
    ELSE "EXACT"

Top == stack[Len(stack)]

Pop(q) == SubSeq(q, 1, Len(q) - 1)

Returned(score, how) == [score |-> score, how |-> how]

QTop == qstack[Len(qstack)]

\* a finished quiescence call returns to the quiescence call that made it, or
\* to the alphaBeta call that made the outermost one
QBack(q) == IF q = <<>> THEN "ret" ELSE "qret"

\* quiescence, l.481: the board after a searched capture is taken back
quiescenceUndo(b, m) == UnmakeMove(b, m)

\* faulty variant: the table is cleared and the clock started before the test
MoveNoLegalLate(fen, limit) ==
    /\ result' = <<>>
    /\ root' = [NoRoot EXCEPT !.fen = fen, !.limit = limit]
    /\ pc' = "idle"
    /\ elapsed' = 0
    /\ timeLimitMsGlobal' = limit
    /\ transTable' = clearTT(transTable)

\* Move, l.596-597: no legal move, the call returns the empty string at once
MoveNoLegal(fen, limit) ==
    /\ result' = <<>>
    /\ root' = [NoRoot EXCEPT !.fen = fen, !.limit = limit]
    /\ pc' = "idle"
    /\ UNCHANGED <<transTable, elapsed, timeLimitMsGlobal>>

\* Move, l.599-602: start the clock, clear the table, take the first move as best
MoveStart(fen, limit, moves) ==
    /\ elapsed' = 0
    /\ timeLimitMsGlobal' = limit
    /\ transTable' = clearTT(transTable)
    /\ root' = [NoRoot EXCEPT !.fen = fen, !.limit = limit, !.moves = moves,
                              !.bestMove = initialBest(moves), !.depth = 1]
    /\ pc' = "depth"
    /\ UNCHANGED result

\* Move, l.589-602
MoveCall(fen, limit) ==
    /\ pc = "idle"
    /\ Explored(limit)
    /\ calls' = calls + 1
    /\ board' = fen
    /\ stack' = <<>>
    /\ qstack' = <<>>
    /\ call' = NoCall
    /\ ret' = Returned(0, "none")
    /\ UNCHANGED <<killerMoves, historyHeuristic, keepTies>>
    /\ IF noLegalMove(LegalMoves(fen))
       THEN MoveNoLegal(fen, limit)
       ELSE MoveStart(fen, limit, LegalMoves(fen))

\* Move, l.604-614: the head of the depth loop
DepthStart ==
    /\ pc = "depth"
    /\ UNCHANGED <<tables, timeLimitMsGlobal, board, stack, qstack, call, ret, result, calls,
                   keepTies>>
    /\ IF root.depth > MAX_DEPTH
       THEN /\ pc' = "return"
            /\ UNCHANGED <<elapsed, root>>
       ELSE /\ elapsed' = Tick
            /\ IF outOfTime
               THEN /\ pc' = "return"
                    /\ UNCHANGED root
               ELSE /\ pc' = "root"
                    /\ root' = [root EXCEPT
                          !.moves = orderMoves(root.moves, board, 0, killerMoves,
                                               historyHeuristic, keepTies),
                          !.alpha = -INF, !.beta = INF, !.bestScore = -INF,
                          !.firstMove = TRUE, !.idx = 1, !.stage = "none"]

\* Move, l.616-633: make the next root move and call alphaBeta on it
RootNext ==
    /\ pc = "root"
    /\ UNCHANGED <<tables, elapsed, timeLimitMsGlobal, stack, qstack, ret, result, calls,
                   keepTies>>
    /\ IF root.idx > Len(root.moves)
       THEN /\ root' = [root EXCEPT !.depth = root.depth + 1]
            /\ pc' = "depth"
            /\ UNCHANGED <<board, call>>
       ELSE /\ board' = MakeMove(board, root.moves[root.idx])
            /\ call' = IF root.firstMove
                       THEN [depth |-> root.depth - 1, alpha |-> -root.beta,
                             beta |-> -root.alpha, ply |-> 1]
                       ELSE [depth |-> root.depth - 1, alpha |-> -root.alpha - 1,
                             beta |-> -root.alpha, ply |-> 1]
            /\ root' = [root EXCEPT !.firstMove = FALSE,
                                    !.stage = IF root.firstMove THEN "full" ELSE "null"]
            /\ pc' = "call"

\* alphaBeta, l.495-496: out of time, the call returns the static evaluation ev
ABTimeout(ev) ==
    /\ ret' = Returned(ev.score, "timeout")
    /\ board' = ev.board
    /\ pc' = "ret"
    /\ UNCHANGED stack

\* alphaBeta, l.493-530: the entry of a call, up to the move loop
ABEnter ==
    /\ pc = "call"
    /\ elapsed' = Tick
    /\ UNCHANGED <<killerMoves, historyHeuristic, transTable, timeLimitMsGlobal,
                   root, qstack, call, result, calls, keepTies>>
    /\ IF outOfTime
       THEN ABTimeout(evaluateRun(board))
       ELSE IF call.depth = 0
       THEN /\ pc' = "qcall"
            /\ UNCHANGED <<board, stack, ret>>
       ELSE IF IsGameOver(board) # "NONE"
       THEN /\ ret' = Returned(terminalScore(IsGameOver(board), call.ply), "over")
            /\ pc' = "ret"
            /\ UNCHANGED <<board, stack>>
       ELSE LET hash == Hash(board)
                tt == probeTT(transTable, hash)
                usable == ttUsable(tt, call.depth)
                alpha == IF usable /\ tt.type = "LOWERBOUND"
                         THEN Max(call.alpha, tt.score) ELSE call.alpha
                beta == IF usable /\ tt.type = "UPPERBOUND"
                        THEN Min(call.beta, tt.score) ELSE call.beta
            IN IF usable /\ (tt.type = "EXACT" \/ alpha >= beta)
               THEN /\ ret' = Returned(tt.score, "tt")
                    /\ pc' = "ret"
                    /\ UNCHANGED <<board, stack>>
               ELSE /\ stack' = Append(stack,
                          [depth |-> call.depth, alpha |-> alpha, beta |-> beta,
                           ply |-> call.ply, hash |-> hash,
                           moves |-> orderMoves(LegalMoves(board), board, call.ply,
                                                killerMoves, historyHeuristic, keepTies),
                           entryAlpha |-> call.alpha, originalAlpha |-> alpha,
                           bestScore |-> -INF,
                           firstMove |-> TRUE, idx |-> 1, stage |-> "none", cut |-> FALSE])
                    /\ pc' = "node"
                    /\ UNCHANGED <<board, ret>>

\* faulty variant: the stand-pat cutoff returns the evaluation, not beta
QStandPatSoft(ev) ==
    /\ board' = ev.board
    /\ IF ev.score >= call.beta
       THEN /\ ret' = Returned(ev.score, "quiescence")
            /\ pc' = QBack(qstack)
            /\ UNCHANGED qstack
       ELSE /\ qstack' = Append(qstack,
                  [alpha |-> Max(call.alpha, ev.score), beta |-> call.beta,
                   ply |-> call.ply, standPat |-> ev.score,
                   moves |-> LegalMoves(ev.board), idx |-> 1])
            /\ pc' = "qnode"
            /\ UNCHANGED ret

\* quiescence, l.466-473: the stand-pat test on the result ev of evaluate
QStandPat(ev) ==
    /\ board' = ev.board
    /\ IF ev.score >= call.beta
       THEN /\ ret' = Returned(call.beta, "quiescence")
            /\ pc' = QBack(qstack)
            /\ UNCHANGED qstack
       ELSE /\ qstack' = Append(qstack,
                  [alpha |-> Max(call.alpha, ev.score), beta |-> call.beta,
                   ply |-> call.ply, standPat |-> ev.score,
                   moves |-> LegalMoves(ev.board), idx |-> 1])
            /\ pc' = "qnode"
            /\ UNCHANGED ret

\* quiescence, l.463-473: the entry of a call, up to the capture loop
QEnter ==
    /\ pc = "qcall"
    /\ UNCHANGED <<tables, elapsed, timeLimitMsGlobal, root, stack, call, result, calls,
                   keepTies>>
    /\ QStandPat(evaluateRun(board))

\* quiescence, l.475-480 and l.490: skip the moves that are not captures, make
\* the next capture and call quiescence on it, or leave the loop and return
QNext ==
    /\ pc = "qnode"
    /\ UNCHANGED <<tables, elapsed, timeLimitMsGlobal, root, stack, result, calls, keepTies>>
    /\ LET captures == {j \in QTop.idx..Len(QTop.moves) : qSearches(board, QTop.moves[j])}
       IN IF captures = {}
          THEN /\ ret' = Returned(QTop.alpha, "quiescence")
               /\ qstack' = Pop(qstack)
               /\ pc' = QBack(Pop(qstack))
               /\ UNCHANGED <<board, call>>
          ELSE LET j == CHOOSE c \in captures : \A d \in captures : c <= d
               IN /\ board' = MakeMove(board, QTop.moves[j])
                  /\ call' = [depth |-> 0, alpha |-> -QTop.beta, beta |-> -QTop.alpha,
                              ply |-> QTop.ply + 1]
                  /\ qstack' = [qstack EXCEPT ![Len(qstack)] = [QTop EXCEPT !.idx = j]]
                  /\ pc' = "qcall"
                  /\ UNCHANGED ret

\* quiescence, l.480-487: a capture's quiescence call has returned
QReturn ==
    /\ pc = "qret"
    /\ UNCHANGED <<tables, elapsed, timeLimitMsGlobal, root, stack, call, result, calls,
                   keepTies>>
    /\ LET score == -ret.score
       IN /\ board' = quiescenceUndo(board, QTop.moves[QTop.idx])
          /\ IF score >= QTop.beta
             THEN /\ ret' = Returned(QTop.beta, "quiescence")
                  /\ qstack' = Pop(qstack)
                  /\ pc' = QBack(Pop(qstack))
             ELSE /\ qstack' = [qstack EXCEPT ![Len(qstack)] =
                                  [QTop EXCEPT !.alpha = Max(QTop.alpha, score),
                                               !.idx = QTop.idx + 1]]
                  /\ pc' = "qnode"
                  /\ UNCHANGED ret

\* alphaBeta, l.533-551 and l.576-586: make the next move and call alphaBeta on
\* it, or leave the loop, store the result and return
ABNext ==
    /\ pc = "node"
    /\ UNCHANGED <<killerMoves, historyHeuristic, elapsed, timeLimitMsGlobal,
                   root, qstack, result, calls, keepTies>>
    /\ IF Top.cut \/ Top.idx > Len(Top.moves)
       THEN /\ transTable' = storeTT(transTable, Top.hash, Top.depth, Top.bestScore,
                                     nodeType(Top.bestScore, Top.originalAlpha, Top.beta))
            /\ ret' = Returned(Top.bestScore, "node")
            /\ stack' = Pop(stack)
            /\ pc' = "ret"
            /\ UNCHANGED <<board, call>>
       ELSE /\ board' = MakeMove(board, Top.moves[Top.idx])
            /\ call' = IF Top.firstMove
                       THEN [depth |-> Top.depth - 1, alpha |-> -Top.beta,
                             beta |-> -Top.alpha, ply |-> childPly(Top.ply)]
                       ELSE [depth |-> Top.depth - 1, alpha |-> -Top.alpha - 1,
                             beta |-> -Top.alpha, ply |-> childPly(Top.ply)]
            /\ stack' = [stack EXCEPT ![Len(stack)] =
                            [Top EXCEPT !.firstMove = FALSE,
                                        !.stage = IF Top.firstMove THEN "full" ELSE "null"]]
            /\ pc' = "call"
            /\ UNCHANGED <<transTable, ret>>

\* faulty variant: the null-window score is taken as it is
pvsResearchesNever(score, alpha, beta) == FALSE

\* alphaBeta, l.548: the null-window score calls for a search with the full
\* window
pvsResearches(score, alpha, beta) == score > alpha /\ score < beta

\* alphaBeta, l.547-574: a child call has returned to an alphaBeta node
ABReturn ==
    /\ pc = "ret"
    /\ stack # <<>>
    /\ UNCHANGED <<transTable, elapsed, timeLimitMsGlobal, root, qstack, ret, result, calls,
                   keepTies>>
    /\ LET score == -ret.score
           move == Top.moves[Top.idx]
       IN IF Top.stage = "null" /\ pvsResearches(score, Top.alpha, Top.beta)
          THEN /\ call' = [depth |-> Top.depth - 1, alpha |-> -Top.beta,
                           beta |-> -Top.alpha, ply |-> childPly(Top.ply)]
               /\ stack' = [stack EXCEPT ![Len(stack)] = [Top EXCEPT !.stage = "re"]]
               /\ pc' = "call"
               /\ UNCHANGED <<board, killerMoves, historyHeuristic>>
          ELSE LET back == UnmakeMove(board, move)
                   raised == score > Top.alpha
                   alpha == IF raised THEN score ELSE Top.alpha
                   quiet == raised /\ isQuiet(back, move)
                   key == <<SideIndex(back), move.from, move.to>>
               IN /\ board' = back
                  /\ killerMoves' =
                        IF quiet THEN killerUpdate(killerMoves, Top.ply, move)
                        ELSE killerMoves
                  /\ historyHeuristic' =
                        IF quiet THEN historyUpdate(historyHeuristic, key, Top.depth)
                        ELSE historyHeuristic
                  /\ stack' = [stack EXCEPT ![Len(stack)] =
                        [Top EXCEPT !.bestScore = Max(Top.bestScore, score),
                                    !.alpha = alpha,
                                    !.cut = alpha >= Top.beta,
                                    !.idx = Top.idx + 1,
                                    !.stage = "none"]]
                  /\ pc' = "node"
                  /\ UNCHANGED call

\* faulty variant: the root loop takes the score without reading the clock
rootDiscardsNever == FALSE

\* Move, l.636-637: the score of the root move is dropped and the loop left
rootDiscards == outOfTime

\* Move, l.629-648: a child call has returned to the root loop
RootReturn ==
    /\ pc = "ret"
    /\ stack = <<>>
    /\ UNCHANGED <<tables, timeLimitMsGlobal, stack, qstack, ret, result, calls, keepTies>>
    /\ LET score == -ret.score
           move == root.moves[root.idx]
       IN IF root.stage = "null" /\ score > root.alpha
          THEN /\ call' = [depth |-> root.depth - 1, alpha |-> -root.beta,
                           beta |-> -root.alpha, ply |-> 1]
               /\ root' = [root EXCEPT !.stage = "re"]
               /\ pc' = "call"
               /\ UNCHANGED <<board, elapsed>>
          ELSE /\ board' = UnmakeMove(board, move)
               /\ elapsed' = Tick
               /\ UNCHANGED call
               /\ IF rootDiscards
                  THEN /\ root' = [root EXCEPT !.depth = root.depth + 1, !.stage = "none"]
                       /\ pc' = "depth"
                  ELSE /\ root' = [root EXCEPT
                             !.bestScore = IF rootImproves(score, root.bestScore)
                                           THEN score ELSE root.bestScore,
                             !.bestMove = IF rootImproves(score, root.bestScore)
                                          THEN move ELSE root.bestMove,
                             !.alpha = Max(root.alpha, score),
                             !.idx = root.idx + 1,
                             !.stage = "none",
                             !.log = Append(root.log, [depth |-> root.depth, move |-> move,
                                                       score |-> score])]
                       /\ pc' = "root"

\* Move, l.651
MoveReturn ==
    /\ pc = "return"
    /\ result' = MoveToUci(root.bestMove)
    /\ pc' = "idle"
    /\ UNCHANGED <<tables, elapsed, timeLimitMsGlobal, board, root, stack, qstack, call,
                   ret, calls, keepTies>>

Init ==
    /\ transTable = ZeroTable
    /\ killerMoves = ZeroKillers
    /\ historyHeuristic = <<>>
    /\ elapsed = 0
    /\ timeLimitMsGlobal = 0
    /\ board = MkBoard(<<>>, "w")
    /\ pc = "idle"
    /\ root = NoRoot
    /\ stack = <<>>
    /\ qstack = <<>>
    /\ call = NoCall
    /\ ret = Returned(0, "none")
    /\ result = <<>>
    /\ calls = 0
    /\ keepTies \in BOOLEAN

Next ==
    \/ \E fen \in Positions, limit \in Budgets : MoveCall(fen, limit)
    \/ DepthStart
    \/ RootNext
    \/ ABEnter
    \/ QEnter
    \/ QNext
    \/ QReturn
    \/ ABNext
    \/ ABReturn
    \/ RootReturn
    \/ MoveReturn

Spec == Init /\ [][Next]_vars

(***************************************************************************)
(* The transposition table on its own: storeTT and clearTT applied with    *)
(* any arguments, among them two hashes that share a slot.                 *)
(***************************************************************************)
MaxTTDepth == 1

TTHashes == {5, 6, 5 + TT_SIZE}

TTDepths == 0..MaxTTDepth

TTScores == {-50, 50}

TTTypes == {"EXACT", "LOWERBOUND", "UPPERBOUND"}

\* a storeTT call; call holds its arguments
TTStore(hash, d, s, t) ==
    /\ transTable' = storeTT(transTable, hash, d, s, t)
    /\ call' = [hash |-> hash, depth |-> d, score |-> s, type |-> t]
    /\ pc' = "store"
    /\ UNCHANGED <<killerMoves, historyHeuristic, elapsed, timeLimitMsGlobal, board,
                   root, stack, qstack, ret, result, calls, keepTies>>

\* a clearTT call
TTClear ==
    /\ transTable' = clearTT(transTable)
    /\ call' = NoCall
    /\ pc' = "clear"
    /\ UNCHANGED <<killerMoves, historyHeuristic, elapsed, timeLimitMsGlobal, board,
                   root, stack, qstack, ret, result, calls, keepTies>>

InitTT == Init /\ keepTies

NextTT ==
    \/ \E hash \in TTHashes, d \in TTDepths, s \in TTScores, t \in TTTypes :
          TTStore(hash, d, s, t)
    \/ TTClear

SpecTT == InitTT /\ [][NextTT]_vars

(***************************************************************************)
(* Move ordering on its own: the history counters and killer slots grow by *)
(* the update of alphaBeta, applied over and over as it is by the searches *)
(* of successive Move calls, and scoreMove ranks the moves of a position.  *)
(***************************************************************************)
\* the greatest counter value explored
MaxHistory == 100200

\* 8/8/p1p5/8/8/7P/p1k5/K7 w: White has one capture, a1a2 by the king, and
\* one other move, h3h4
CaptureOrPush ==
    MkBoard((0 :> "K") @@ (23 :> "P") @@ (8 :> "p") @@ (10 :> "k")
            @@ (40 :> "p") @@ (42 :> "p"), "w")

\* the ply of the nodes, two plies below the root, that raise the counters
RaisePly == 2

\* alphaBeta, l.558-570: at a node of remaining depth `depth` the non-capture
\* m of the side to move raises alpha
HistoryRaise(m, depth) ==
    LET key == <<SideIndex(board), m.from, m.to>>
    IN /\ pc = "order"
       /\ isQuiet(board, m)
       /\ HistoryAt(historyHeuristic, key[1], key[2], key[3]) + depth * depth <= MaxHistory
       /\ killerMoves' = killerUpdate(killerMoves, RaisePly, m)
       /\ historyHeuristic' = historyUpdate(historyHeuristic, key, depth)
       /\ UNCHANGED <<transTable, elapsed, timeLimitMsGlobal, board, pc, root, stack,
                      qstack, call, ret, result, calls, keepTies>>

InitOrder ==
    /\ transTable = ZeroTable
    /\ killerMoves = ZeroKillers
    /\ historyHeuristic = <<>>
    /\ elapsed = 0
    /\ timeLimitMsGlobal = 0
    /\ board = CaptureOrPush
    /\ pc = "order"
    /\ root = [NoRoot EXCEPT !.moves = LegalMoves(CaptureOrPush)]
    /\ stack = <<>>
    /\ qstack = <<>>
    /\ call = NoCall
    /\ ret = Returned(0, "none")
    /\ result = <<>>
    /\ calls = 0
    /\ keepTies = TRUE

NextOrder ==
    \E i \in 1..Len(root.moves), depth \in 1..(MAX_DEPTH - 1) :
       HistoryRaise(root.moves[i], depth)

SpecOrder == InitOrder /\ [][NextOrder]_vars

(***************************************************************************)
(* Two Move calls in one process, each on a thread of its own.  searchStart,*)
(* timeLimitMsGlobal, transTable, killerMoves and historyHeuristic are     *)
(* statics of the translation unit, so both calls read and write the same  *)
(* objects; pc and root hold one entry for each call, and call holds the   *)
(* last assignment to timeLimitMsGlobal.  The steps of a call are the      *)
(* statements that touch the statics, in the order Move runs them.         *)
(***************************************************************************)
Threads == {1, 2}

\* the greatest reading of the clock explored
MaxRaceClock == 5

RaceBudgets == {ShortBudget, MaxBudget}

RaceHashes == {5, 6}

\* the non-captures that cut off, by from and to square
RaceMoves == {MkMove(23, 31, "normal", "."), MkMove(0, 1, "normal", ".")}

\* the locals of a call: its budget, the budget its last time check compared,
\* a mark that flips at each of its time checks, the hash it stored last
NoRace == [limit |-> 0, used |-> 0, checks |-> 0, stored |-> -1]

\* faulty variant: each call compares the clock with the budget it was given
budgetReadOwn(own, shared) == own

\* outOfTime, l.16 and l.22: the budget compared is the static, whoever set it
budgetRead(own, shared) == shared

\* Move, l.589-599: call t is made with a position that has a legal move and
\* sets searchStart
RaceCall(t, limit) ==
    /\ pc[t] = "idle"
    /\ calls < MaxCalls
    /\ calls' = calls + 1
    /\ elapsed' = 0
    /\ root' = [root EXCEPT ![t] = [NoRace EXCEPT !.limit = limit]]
    /\ pc' = [pc EXCEPT ![t] = "limit"]
    /\ UNCHANGED <<tables, timeLimitMsGlobal, board, stack, qstack, call, ret, result,
                   keepTies>>

\* Move, l.600: call t sets timeLimitMsGlobal
RaceLimit(t) ==
    /\ pc[t] = "limit"
    /\ timeLimitMsGlobal' = root[t].limit
    /\ call' = [by |-> t, limit |-> root[t].limit]
    /\ pc' = [pc EXCEPT ![t] = "clear"]
    /\ UNCHANGED <<tables, elapsed, board, root, stack, qstack, ret, result, calls,
                   keepTies>>

\* Move, l.601: call t clears the table
RaceClear(t) ==
    /\ pc[t] = "clear"
    /\ transTable' = clearTT(transTable)
    /\ pc' = [pc EXCEPT ![t] = "search"]
    /\ UNCHANGED <<killerMoves, historyHeuristic, elapsed, timeLimitMsGlobal, board, root,
                   stack, qstack, call, ret, result, calls, keepTies>>

\* outOfTime, l.18-23, as called by the search of call t (l.495, l.606,
\* l.636): out of time, the search of t unwinds and t returns
RaceTimeCheck(t) ==
    LET budget == budgetRead(root[t].limit, timeLimitMsGlobal)
    IN /\ pc[t] = "search"
       /\ elapsed < MaxRaceClock
       /\ elapsed' = Tick
       /\ root' = [root EXCEPT ![t].used = budget, ![t].checks = 1 - @]
       /\ pc' = [pc EXCEPT ![t] = IF elapsed >= budget THEN "timeout" ELSE "search"]
       /\ UNCHANGED <<tables, timeLimitMsGlobal, board, stack, qstack, call, ret, result,
                      calls, keepTies>>

\* alphaBeta, l.584: a node of the search of call t stores its result
RaceStore(t, hash, d, s, type) ==
    /\ pc[t] = "search"
    /\ transTable' = storeTT(transTable, hash, d, s, type)
    /\ root' = [root EXCEPT ![t].stored = hash]
    /\ UNCHANGED <<killerMoves, historyHeuristic, elapsed, timeLimitMsGlobal, board, pc,
                   stack, qstack, call, ret, result, calls, keepTies>>

\* alphaBeta, l.562-569: a non-capture raises alpha at a node of the search
\* of call t, at ply RaisePly with remaining depth 1
RaceRaise(t, m) ==
    LET key == <<0, m.from, m.to>>
    IN /\ pc[t] = "search"
       /\ HistoryAt(historyHeuristic, key[1], key[2], key[3]) = 0
       /\ killerMoves' = killerUpdate(killerMoves, RaisePly, m)
       /\ historyHeuristic' = historyUpdate(historyHeuristic, key, 1)
       /\ UNCHANGED <<transTable, elapsed, timeLimitMsGlobal, board, pc, root, stack,
                      qstack, call, ret, result, calls, keepTies>>

\* Move, l.650-651: the depth loop of call t is over, t returns its move
RaceReturn(t) ==
    /\ pc[t] = "search"
    /\ pc' = [pc EXCEPT ![t] = "done"]
    /\ UNCHANGED <<tables, elapsed, timeLimitMsGlobal, board, root, stack, qstack, call,
                   ret, result, calls, keepTies>>

InitRace ==
    /\ transTable = ZeroTable
    /\ killerMoves = ZeroKillers
    /\ historyHeuristic = <<>>
    /\ elapsed = 0
    /\ timeLimitMsGlobal = 0
    /\ board = MkBoard(<<>>, "w")
    /\ pc = [t \in Threads |-> "idle"]
    /\ root = [t \in Threads |-> NoRace]
    /\ stack = <<>>
    /\ qstack = <<>>
    /\ call = [by |-> 0, limit |-> 0]
    /\ ret = Returned(0, "none")
    /\ result = <<>>
    /\ calls = 0
    /\ keepTies = TRUE

NextRace ==
    \/ \E t \in Threads, limit \in RaceBudgets : RaceCall(t, limit)
    \/ \E t \in Threads : RaceLimit(t)
    \/ \E t \in Threads : RaceClear(t)
    \/ \E t \in Threads : RaceTimeCheck(t)
    \/ \E t \in Threads, hash \in RaceHashes : RaceStore(t, hash, 1, 50, "EXACT")
    \/ \E t \in Threads, m \in RaceMoves : RaceRaise(t, m)
    \/ \E t \in Threads : RaceReturn(t)

SpecRace == InitRace /\ [][NextRace]_vars

(***************************************************************************)
(* alphaBeta on its own: one call, as Move makes it on the position after a *)
(* root move, with any window, on a cleared table and with the full budget.*)
(* root keeps the position and the arguments of the call.                  *)
(***************************************************************************)
\* the greatest depth alphaBeta is called with
MaxPVSDepth == 3

PVSPositions == Positions \cup {CaptureOrPush}

\* the windows alphaBeta is called with: the full window of the first root
\* move, null windows, and windows of some width around a balanced score, a
\* pawn up and a pawn down
PVSWindows ==
    {<<-INF, INF>>, <<-1, 0>>, <<0, 1>>, <<-150, 150>>, <<40, 250>>, <<-250, -40>>}

InitPVS ==
    /\ transTable = clearTT(ZeroTable)
    /\ killerMoves = ZeroKillers
    /\ historyHeuristic = <<>>
    /\ elapsed = 0
    /\ timeLimitMsGlobal = FullBudget
    /\ board \in PVSPositions
    /\ pc = "call"
    /\ \E depth \in 1..MaxPVSDepth, w \in PVSWindows :
          /\ root = [NoRoot EXCEPT !.fen = board, !.limit = FullBudget, !.depth = depth,
                                   !.alpha = w[1], !.beta = w[2]]
          /\ call = [depth |-> depth, alpha |-> w[1], beta |-> w[2], ply |-> 1]
    /\ stack = <<>>
    /\ qstack = <<>>
    /\ ret = Returned(0, "none")
    /\ result = <<>>
    /\ calls = 1
    /\ keepTies \in BOOLEAN

NextPVS ==
    \/ ABEnter
    \/ QEnter
    \/ QNext
    \/ QReturn
    \/ ABNext
    \/ ABReturn

SpecPVS == InitPVS /\ [][NextPVS]_vars

(***************************************************************************)
(* Properties.                                                             *)
(***************************************************************************)
\* a Move call has returned and no other call has started
Done == pc = "idle" /\ calls > 0

\* the UCI strings of the legal moves of the position the last call was given
RootUci == {MoveToUci(LegalMoves(root.fen)[i]) : i \in 1..Len(LegalMoves(root.fen))}

\* C1: whenever Move has returned from a position that has a legal move, for
\* any budget and any tables left by an earlier call, the result is the UCI
\* string of one of the legal moves of that position and is not empty
C1_ReturnsLegalMove ==
    (Done /\ LegalMoves(root.fen) # <<>>) => (result # <<>> /\ result \in RootUci)

\* a second call, with budget 0, has returned a move while the table, killer
\* slots and history counters hold what the first call left
C1_Witness ==
    /\ Done /\ calls = 2 /\ root.limit = 0 /\ result \in RootUci
    /\ killerMoves # ZeroKillers /\ historyHeuristic # <<>> /\ transTable.used # <<>>

\* C2: a Move call on a position with no legal move returns the empty string
\* and leaves the clock, the time limit, the transposition table, the killer
\* slots and the history counters as they were
C2_NoMoveReturnsEmpty ==
    [][(calls' # calls /\ LegalMoves(board') = <<>>) =>
          /\ result' = <<>>
          /\ pc' = "idle"
          /\ UNCHANGED <<transTable, killerMoves, historyHeuristic, elapsed,
                         timeLimitMsGlobal>>]_vars

\* a second call, on a position with no legal move, has returned the empty
\* string and the table still holds entries the first call stored
C2_Witness ==
    /\ Done /\ calls = 2 /\ LegalMoves(root.fen) = <<>> /\ result = <<>>
    /\ \E h \in DOMAIN transTable.used : transTable.used[h].depth > 0
    /\ elapsed > 0

\* C3: whenever Move has returned from a position with exactly one legal move,
\* the result is that move, for every budget
C3_ReturnsOnlyMove ==
    (Done /\ Len(LegalMoves(root.fen)) = 1) => result = MoveToUci(LegalMoves(root.fen)[1])

\* a call with budget 0 on a position with one legal move has returned it
C3_Witness ==
    /\ Done /\ Len(LegalMoves(root.fen)) = 1 /\ root.limit = 0
    /\ result = MoveToUci(LegalMoves(root.fen)[1])

\* the position after m is checkmate
Mates(b, m) == IsGameOver(MakeMove(b, m)) = "LOSE"

\* the legal moves of b that checkmate at once
MatingMoves(b) == {LegalMoves(b)[i] : i \in {j \in 1..Len(LegalMoves(b)) : Mates(b, LegalMoves(b)[j])}}

\* C4: whenever Move has returned, with the full budget, from a position that
\* has a move that checkmates at once, the result is a move that checkmates
C4_ReturnsMate ==
    (Done /\ root.limit = FullBudget /\ MatingMoves(root.fen) # {})
        => \E m \in MatingMoves(root.fen) : result = MoveToUci(m)

\* a full-budget call on a position with a mate in one and other legal moves
\* has searched all five depths and returned a mating move
C4_Witness ==
    /\ Done /\ root.limit = FullBudget /\ root.depth > MAX_DEPTH
    /\ \E m \in MatingMoves(root.fen) : result = MoveToUci(m)
    /\ Len(LegalMoves(root.fen)) > Cardinality(MatingMoves(root.fen))
\* the square s seen from the other side of the board
Mirror(s) == SqAt(FileOf(s), 7 - RankOf(s))

\* the piece p in the other colour
SwapColour(p) ==
    IF p \in WhitePieces THEN PieceOf("b", p)
    ELSE IF p \in BlackPieces THEN TypeOf(p) ELSE "."

\* the position b with the board mirrored, the colours of the pieces swapped
\* and the other side to move
ColourFlip(b) ==
    [sq |-> [s \in Squares |-> SwapColour(b.sq[Mirror(s)])], stm |-> Opp(b.stm),
     ep |-> IF b.ep = -1 THEN -1 ELSE Mirror(b.ep), prev |-> <<>>]

\* C5: for every position the search visits, the sum of the evaluation terms
\* from White's side is negated by a colour flip, and evaluate, which scores
\* from the mover's side, is unchanged by it
C5_Antisymmetric ==
    /\ WhiteScore(ColourFlip(board)) = -WhiteScore(board)
    /\ evaluate(ColourFlip(board)) = evaluate(board)
\* the slots either table has written
SlotsOf(a, b) == DOMAIN a.used \cup DOMAIN b.used

\* what storeTT(hash, d, s, t) does to the table: the slot of hash holds
\* (d, s, t) if its depth was at most d and is as it was otherwise, and every
\* other slot is as it was
StoreEffect(hash, d, s, t) ==
    /\ probeTT(transTable', hash) =
          IF probeTT(transTable, hash).depth <= d THEN TTEntry(d, s, t)
          ELSE probeTT(transTable, hash)
    /\ \A i \in SlotsOf(transTable, transTable') \ {SlotOf(hash)} :
          probeTT(transTable', i) = probeTT(transTable, i)
    /\ transTable'.rest = transTable.rest

\* C6: a storeTT(hash, d, s, t) writes (d, s, t) to the slot hash mod 2^22 if
\* the depth the slot holds is at most d, after which a probe of hash returns
\* (d, s, t), and leaves depth, score and type of the slot as they were
\* otherwise; no other slot changes; and in every step that is not a clearTT
\* the depth of no slot decreases
C6_DepthPreferred ==
    [][/\ pc' = "store" => StoreEffect(call'.hash, call'.depth, call'.score, call'.type)
       /\ pc' # "clear" =>
             \A i \in SlotsOf(transTable, transTable') :
                probeTT(transTable', i).depth >= probeTT(transTable, i).depth]_vars

\* after a clearTT, the last storeTT had a smaller depth than the slot of its
\* hash holds, a slot written through another hash, and left the slot alone
C6_Witness ==
    /\ pc = "store" /\ transTable.rest.depth = -1
    /\ call.hash = 5 /\ call.depth < probeTT(transTable, 5).depth
    /\ probeTT(transTable, 5 + TT_SIZE) = TTEntry(MaxTTDepth, 50, "LOWERBOUND")
    /\ probeTT(transTable, 6).depth = -1
\* a quiescence call on a position with no legal capture has just returned:
\* board is the position and call the arguments it was called with
QuietReturned ==
    /\ pc \in {"ret", "qret"} /\ ret.how = "quiescence"
    /\ \A i \in 1..Len(LegalMoves(board)) : ~IsCapture(board, LegalMoves(board)[i])

\* v brought into the window: beta if v >= beta, otherwise the greater of
\* alpha and v
Clamp(v, alpha, beta) == IF v >= beta THEN beta ELSE Max(alpha, v)

\* C7 as stated: quiescence on a position with no legal capture returns
\* exactly the static evaluation of the position, for every window
C7_ExactStandPat == QuietReturned => ret.score = evaluate(board)

\* C7: quiescence on a position with no legal capture returns the static
\* evaluation brought into the window: beta if the evaluation is at least
\* beta, alpha if it is at most alpha, and the evaluation itself otherwise
C7_ClampedStandPat ==
    QuietReturned => ret.score = Clamp(evaluate(board), call.alpha, call.beta)

\* a quiescence call on a position with no legal capture, whose evaluation
\* is below the window, has returned alpha
C7_Witness ==
    QuietReturned /\ evaluate(board) < call.alpha /\ ret.score = call.alpha
\* a call has just returned from a node where the side to move is checkmated:
\* board is the node and call the arguments of the call
MatedReturned == pc \in {"ret", "qret"} /\ IsGameOver(board) = "LOSE"

\* C8 as stated: a node where the side to move is checkmated is scored
\* -MATE_SCORE + ply
C8_MatedNodeScore == MatedReturned => ret.score = -MATE_SCORE + call.ply

\* C8: a node where the side to move is checkmated is scored -MATE_SCORE + ply
\* when alphaBeta reaches it with depth left and time left; and after a
\* search with the full budget the root score is MATE_SCORE - 1 exactly when
\* the position has a mate in one, is MATE_SCORE - 3 for the mate in two, and
\* for the mate in three, which five plies do not reach, is below the score
\* MATE_SCORE - 5 of a mate in three
C8_MateDistance ==
    /\ (MatedReturned /\ ret.how = "over") => ret.score = -MATE_SCORE + call.ply
    /\ (Done /\ root.limit = FullBudget /\ LegalMoves(root.fen) # <<>>) =>
          /\ root.bestScore <= MATE_SCORE - 1
          /\ root.bestScore = MATE_SCORE - 1 <=> MatingMoves(root.fen) # {}
          /\ root.fen = MateInTwo => root.bestScore = MATE_SCORE - 3
          /\ root.fen = MateInThree => root.bestScore < MATE_SCORE - 5

\* the search of the mate in two, with entries in the transposition table,
\* has scored the checkmated node at ply 3
C8_Witness ==
    /\ MatedReturned /\ ret.how = "over" /\ call.ply = 3 /\ ret.score = -MATE_SCORE + 3
    /\ root.fen = MateInTwo
    /\ \E h \in DOMAIN transTable.used : transTable.used[h].depth > 0
\* the moves made and not yet taken back: that of Move's loop, those of the
\* alphaBeta calls and those of the quiescence calls that have a call in progress
Line ==
    (IF root.stage = "none" THEN <<>> ELSE <<root.moves[root.idx]>>)
    \o Concat([k \in 1..Len(stack) |->
                  IF stack[k].stage = "none" THEN <<>>
                  ELSE <<stack[k].moves[stack[k].idx]>>])
    \o Concat([k \in 1..Len(qstack) |->
                  IF k = Len(qstack) /\ pc = "qnode" THEN <<>>
                  ELSE <<qstack[k].moves[qstack[k].idx]>>])

\* the position b after the moves of line, with the undo records they push
Played(b, line) ==
    LET P[i \in 0..Len(line)] == IF i = 0 THEN b ELSE MakeMove(P[i - 1], line[i])
    IN P[Len(line)]

\* C9: at every point of a Move call the position, undo records included, is
\* the position Move was given followed by the moves that are made and not
\* yet taken back; so a call of evaluate, quiescence or alphaBeta that has
\* returned, by a time-out, a table hit or a cutoff as well, has left the
\* position as it was on entry, and when Move has returned the position is
\* the one it was given
C9_Balanced ==
    calls > 0 =>
        /\ board = Played(root.fen, Line)
        /\ Done => board = root.fen

\* a quiescence call two plies or more below the root has evaluated the
\* position, made a capture, searched it and taken it back
C9_Witness ==
    /\ pc = "qnode" /\ Len(Line) >= 2 /\ QTop.idx > 1
    /\ \E i \in 1..(QTop.idx - 1) : IsCapture(board, QTop.moves[i])
    /\ board = Played(root.fen, Line)
\* the root moves of the last iteration in which a root move was completed
\* (its search returned and the time check after it passed), in the order
\* they were completed
LastCompleted ==
    LET last == root.log[Len(root.log)].depth
    IN SelectSeq(root.log, LAMBDA e : e.depth = last)

\* the entry of done that beats every earlier one and is not beaten later
BestOf(done) ==
    LET i == CHOOSE k \in 1..Len(done) :
                 /\ \A j \in 1..(k - 1) : done[j].score < done[k].score
                 /\ \A j \in (k + 1)..Len(done) : done[j].score <= done[k].score
    IN done[i]

\* C10: when Move has returned from a position that has a legal move, the
\* result is, if a root move was completed at some depth, the first of the
\* completed root moves of the last such depth that has the greatest score
\* among them, and otherwise the first move of the generated list
C10_LastDepthBest ==
    (Done /\ LegalMoves(root.fen) # <<>>) =>
        result = IF root.log = <<>> THEN MoveToUci(LegalMoves(root.fen)[1])
                 ELSE MoveToUci(BestOf(LastCompleted).move)

\* Move has returned after the clock cut an iteration deeper than the first
\* short, with two or more of its root moves completed, two of them with the
\* greatest score, and the result is not the first generated move
C10_Witness ==
    /\ Done /\ root.log # <<>>
    /\ LastCompleted[1].depth > 1
    /\ Len(LastCompleted) < Len(LegalMoves(root.fen))
    /\ \E i, j \in 1..Len(LastCompleted) :
          i < j /\ LastCompleted[i] = BestOf(LastCompleted)
                /\ LastCompleted[j].score = LastCompleted[i].score
    /\ result = MoveToUci(BestOf(LastCompleted).move)
    /\ result # MoveToUci(LegalMoves(root.fen)[1])
\* the root moves completed in iteration d, in the order they were completed
CompletedAt(d) == SelectSeq(root.log, LAMBDA e : e.depth = d)

\* the iteration the clock cut short, when Move has returned: the time check
\* after a root move of iteration root.depth - 1 failed before all root moves
\* of that iteration were completed
CutDepth == root.depth - 1

Interrupted ==
    /\ Done /\ LegalMoves(root.fen) # <<>> /\ CutDepth >= 1
    /\ Len(CompletedAt(CutDepth)) < Len(LegalMoves(root.fen))

\* C11 as stated: when the budget expires during an iteration, the result is
\* the best move of the last iteration that ran over all root moves
C11_LastCompletedDepth ==
    (Interrupted /\ CutDepth > 1) =>
        result = MoveToUci(BestOf(CompletedAt(CutDepth - 1)).move)

\* C11: when the budget expires during an iteration, the result is the first
\* greatest-scoring root move among those the interrupted iteration
\* completed, if it completed any; otherwise it is the best move of the
\* iteration before, which ran over all root moves, or the first generated
\* move if the first iteration was the one interrupted
C11_InterruptedDepth ==
    Interrupted =>
        result = IF CompletedAt(CutDepth) # <<>>
                 THEN MoveToUci(BestOf(CompletedAt(CutDepth)).move)
                 ELSE IF CutDepth > 1
                      THEN MoveToUci(BestOf(CompletedAt(CutDepth - 1)).move)
                      ELSE MoveToUci(LegalMoves(root.fen)[1])

\* the budget expired in an iteration deeper than the first after it had
\* completed some root moves, and the result is their best move and not the
\* best move of the iteration before
C11_Witness ==
    /\ Interrupted /\ CutDepth > 1 /\ CompletedAt(CutDepth) # <<>>
    /\ result = MoveToUci(BestOf(CompletedAt(CutDepth)).move)
    /\ result # MoveToUci(BestOf(CompletedAt(CutDepth - 1)).move)
\* every slot of the table tt holds depth -1
AllCleared(tt) ==
    /\ tt.rest.depth = -1
    /\ \A i \in DOMAIN tt.used : tt.used[i].depth = -1

\* C12: a Move call on a position with a legal move starts the clock and
\* clears the table, every slot then holding depth -1, in the step that
\* starts it; no later step of the call clears the table: the table changes
\* only where an alphaBeta node of depth 1 or more stores its result; and
\* alphaBeta returns a table score only from a probe at depth 1 or more of
\* a slot that holds at least that depth, which no slot left by an earlier
\* call does
C12_ClearedOncePerCall ==
    [][/\ (calls' # calls /\ LegalMoves(board') # <<>>) =>
             (elapsed' = 0 /\ AllCleared(transTable'))
       /\ (calls' = calls /\ transTable' # transTable) =>
             /\ pc = "node" /\ Top.depth >= 1
             /\ transTable' = storeTT(transTable, Top.hash, Top.depth, Top.bestScore,
                                      nodeType(Top.bestScore, Top.originalAlpha, Top.beta))
             /\ ~AllCleared(transTable')
       /\ (pc = "call" /\ pc' = "ret" /\ ret'.how = "tt") =>
             /\ call.depth >= 1
             /\ probeTT(transTable, Hash(board)).depth >= call.depth]_vars

\* in a second call, alphaBeta is about to probe, at depth 1 or more, a slot
\* that holds a cleared entry of the first call
C12_Witness ==
    /\ calls = 2 /\ pc = "call" /\ ~outOfTime /\ call.depth >= 1
    /\ IsGameOver(board) = "NONE"
    /\ SlotOf(Hash(board)) \in DOMAIN transTable.used
    /\ probeTT(transTable, Hash(board)).depth = -1
    /\ probeTT(transTable, Hash(board)).score # 0
\* alphaBeta is about to probe the table: it has time left and depth left, and
\* the game is not over at the node
Probing ==
    pc = "call" /\ ~outOfTime /\ call.depth # 0 /\ IsGameOver(board) = "NONE"

\* the entry alphaBeta is about to probe
Probed == probeTT(transTable, Hash(board))

\* the call returns the probed score without generating moves
ReturnsProbed == pc' = "ret" /\ ret' = Returned(Probed.score, "tt") /\ stack' = stack

\* the call goes on to its move loop with the window (alpha, beta)
ExpandsWith(alpha, beta) ==
    /\ pc' = "node" /\ Len(stack') = Len(stack) + 1
    /\ stack'[Len(stack')].alpha = alpha /\ stack'[Len(stack')].beta = beta

\* C13: when alphaBeta probes, a slot whose depth is below the remaining
\* depth changes neither window nor result; otherwise an EXACT entry makes
\* the call return its score without generating moves, a LOWERBOUND entry
\* raises alpha to max(alpha, score), an UPPERBOUND entry lowers beta to
\* min(beta, score), and the call returns the stored score without expanding
\* if alpha >= beta then
C13_Lookup ==
    [][Probing =>
         IF Probed.depth < call.depth THEN ExpandsWith(call.alpha, call.beta)
         ELSE IF Probed.type = "EXACT" THEN ReturnsProbed
         ELSE IF Probed.type = "LOWERBOUND"
              THEN IF Max(call.alpha, Probed.score) >= call.beta THEN ReturnsProbed
                   ELSE ExpandsWith(Max(call.alpha, Probed.score), call.beta)
         ELSE IF Min(call.beta, Probed.score) <= call.alpha THEN ReturnsProbed
              ELSE ExpandsWith(call.alpha, Min(call.beta, Probed.score))]_vars

\* alphaBeta is about to probe a slot that is deep enough and holds an upper
\* bound inside the window, which lowers beta without ending the call
C13_Witness ==
    /\ Probing /\ Probed.depth >= call.depth /\ Probed.type = "UPPERBOUND"
    /\ Probed.score > call.alpha /\ Probed.score < call.beta
\* alphaBeta has run its move loop and is about to store and return
Storing == pc = "node" /\ (Top.cut \/ Top.idx > Len(Top.moves))

\* the bound type named for a result between a lower limit and beta
BoundFor(bestScore, low, beta) ==
    IF bestScore <= low THEN "UPPERBOUND"
    ELSE IF bestScore >= beta THEN "LOWERBOUND"
    ELSE "EXACT"

\* C14 as stated: the node stores bestScore at its remaining depth, typed
\* against the alpha it was called with
C14_TypedByEntryAlpha ==
    [][Storing =>
         transTable' = storeTT(transTable, Top.hash, Top.depth, Top.bestScore,
                               BoundFor(Top.bestScore, Top.entryAlpha, Top.beta))]_vars

\* C14: every node that ran its move loop stores bestScore at its remaining
\* depth, typed UPPERBOUND if bestScore is at most the node's alpha as it
\* stood after the table lookup (the alpha of the call, raised to a usable
\* LOWERBOUND score), LOWERBOUND if it is at least beta (the beta of the call,
\* lowered to a usable UPPERBOUND score), EXACT otherwise
C14_TypedByLookupAlpha ==
    [][Storing =>
         /\ Top.originalAlpha = Max(Top.entryAlpha, Top.originalAlpha)
         /\ transTable' = storeTT(transTable, Top.hash, Top.depth, Top.bestScore,
                                  BoundFor(Top.bestScore, Top.originalAlpha, Top.beta))]_vars

\* a node whose alpha the lookup raised is about to store a result above the
\* alpha of the call but not above the raised one
C14_Witness ==
    /\ Storing /\ Top.entryAlpha < Top.bestScore /\ Top.bestScore <= Top.originalAlpha
    /\ Top.bestScore < Top.beta
\* the two lists hold the same moves, each as often
SameMoves(a, b) ==
    /\ Len(a) = Len(b)
    /\ \A i \in 1..Len(a) :
          Cardinality({j \in 1..Len(a) : a[j] = a[i]}) =
          Cardinality({j \in 1..Len(b) : b[j] = a[i]})

\* the list runs in non-increasing priority for the position and ply
Descending(ms, ply) ==
    \A i \in 1..(Len(ms) - 1) :
       scoreMove(board, ms[i], ply, killerMoves, historyHeuristic) >=
       scoreMove(board, ms[i + 1], ply, killerMoves, historyHeuristic)

\* C17: each call of orderMoves, in alphaBeta and in the root loop, leaves
\* the same moves in non-increasing scoreMove priority for the position and
\* ply, and changes neither the position nor the killer slots, the history
\* counters or the transposition table
C17_OrderPermutes ==
    [][/\ (pc = "call" /\ pc' = "node") =>
             /\ SameMoves(stack'[Len(stack')].moves, LegalMoves(board))
             /\ Descending(stack'[Len(stack')].moves, call.ply)
             /\ UNCHANGED <<board, killerMoves, historyHeuristic, transTable>>
       /\ (pc = "depth" /\ pc' = "root") =>
             /\ SameMoves(root'.moves, root.moves)
             /\ Descending(root'.moves, 0)
             /\ UNCHANGED <<board, killerMoves, historyHeuristic, transTable>>]_vars

\* a node is about to search the first move of a list that orderMoves
\* rearranged by priority: a later-generated move got ahead of an earlier one
C17_Witness ==
    /\ pc = "node" /\ Top.idx = 1 /\ Top.stage = "none" /\ keepTies
    /\ Top.moves # LegalMoves(board)
    /\ Len(Top.moves) >= 3
\* a child's call has returned its final score to an alphaBeta node, which
\* is about to compare it with bestScore and alpha (l.553-570)
Scoring ==
    /\ pc = "ret" /\ stack # <<>>
    /\ ~(Top.stage = "null" /\ -ret.score > Top.alpha /\ -ret.score < Top.beta)

\* the move just searched and the position it was made in
Searched == Top.moves[Top.idx]

Before == UnmakeMove(board, Searched)

\* the node's move raised alpha, and is a non-capture or a capture
QuietRaise == Scoring /\ -ret.score > Top.alpha /\ ~IsCapture(Before, Searched)

CaptureRaise == Scoring /\ -ret.score > Top.alpha /\ IsCapture(Before, Searched)

HistoryKeys == DOMAIN historyHeuristic \cup DOMAIN historyHeuristic'

\* C18: no step lowers or resets a history counter; the counters change only
\* in the step of alphaBeta in which a non-capture move raised alpha, and then
\* only the counter of (side to move, from, to) of that move, by exactly the
\* square of the node's remaining depth; root loop, quiescence and the start
\* of a call leave them alone
C18_HistoryGrows ==
    [][/\ \A k \in HistoryKeys :
             HistoryAt(historyHeuristic', k[1], k[2], k[3]) >=
             HistoryAt(historyHeuristic, k[1], k[2], k[3])
       /\ IF QuietRaise
          THEN \A k \in HistoryKeys :
                  HistoryAt(historyHeuristic', k[1], k[2], k[3]) =
                  HistoryAt(historyHeuristic, k[1], k[2], k[3])
                  + (IF k = <<SideIndex(Before), Searched.from, Searched.to>>
                     THEN Top.depth * Top.depth ELSE 0)
          ELSE historyHeuristic' = historyHeuristic]_vars

\* in a second call a non-capture is about to raise alpha whose counter the
\* first call left above zero
C18_Witness ==
    /\ calls = 2 /\ QuietRaise
    /\ HistoryAt(historyHeuristic, SideIndex(Before), Searched.from, Searched.to) > 16

\* C19: when a non-capture raises alpha at a node of ply p, slot 0 of ply p
\* then holds that move and slot 1 what slot 0 held, and the slots of every
\* other ply are as before; a capture that raises alpha changes no slot
C19_KillerFifo ==
    [][/\ QuietRaise =>
             /\ killerMoves'[Top.ply][1] = Searched
             /\ killerMoves'[Top.ply][2] = killerMoves[Top.ply][1]
             /\ \A p \in DOMAIN killerMoves \ {Top.ply} : killerMoves'[p] = killerMoves[p]
       /\ CaptureRaise => killerMoves' = killerMoves]_vars

\* a non-capture is about to raise alpha at a ply whose two slots hold two
\* other moves, different from each other
C19_Witness ==
    /\ QuietRaise
    /\ killerMoves[Top.ply][1] # NoMove /\ killerMoves[Top.ply][2] # NoMove
    /\ killerMoves[Top.ply][1] # killerMoves[Top.ply][2]
    /\ Searched # killerMoves[Top.ply][1] /\ Searched # killerMoves[Top.ply][2]
\* C20 as stated: a move enters the killer slots of a ply only as a
\* non-capture that caused a beta cutoff at that ply
C20_KillersCutOff ==
    [][\A p \in DOMAIN killerMoves :
          killerMoves'[p] # killerMoves[p] =>
             QuietRaise /\ p = Top.ply /\ -ret.score >= Top.beta]_vars

\* C20: the slots of a ply change only when a non-capture raises alpha at a
\* node of that ply, with or without a beta cutoff, and then take that move
\* and the former slot 0; so every move held in a slot is a non-capture that
\* raised alpha at the ply of the slot, a slot holds no move until such moves
\* have come, and both slots may hold the same move
C20_KillersRaisedAlpha ==
    [][\A p \in DOMAIN killerMoves :
          killerMoves'[p] # killerMoves[p] =>
             /\ QuietRaise /\ p = Top.ply
             /\ killerMoves'[p] = <<Searched, killerMoves[p][1]>>]_vars

\* a non-capture that is already in slot 0 of its ply, the other slot being
\* empty, is about to raise alpha without a cutoff: both slots then hold it
C20_Witness ==
    /\ QuietRaise /\ -ret.score < Top.beta
    /\ killerMoves[Top.ply] = <<Searched, NoMove>>
\* the piece a capture takes off the board
Captured(b, m) ==
    IF m.kind = "ep" THEN At(b, EpVictim(m.to, SideToMove(b))) ELSE At(b, m.to)

\* the capturing moves of the list m get the priority of the claim
CapturesValued(ms, ply) ==
    \A i \in 1..Len(ms) :
       IsCapture(board, ms[i]) =>
          scoreMove(board, ms[i], ply, killerMoves, historyHeuristic) =
          100000 + (pieceValue(Captured(board, ms[i])) - pieceValue(At(board, ms[i].from)))

\* C16: whenever a node or the root loop has ordered its moves, every
\* capturing move, en passant and captures by the king included, has priority
\* 100000 + (value of the captured piece - value of the capturing piece)
C16_CapturePriority ==
    /\ (pc = "node" /\ Top.idx = 1 /\ Top.stage = "none") => CapturesValued(Top.moves, Top.ply)
    /\ (pc = "root" /\ root.idx = 1 /\ root.stage = "none") => CapturesValued(root.moves, 0)
\* C15: at every ply of the ordering, each capturing legal move of the
\* position has a greater scoreMove than each non-capturing one, whatever the
\* searches have made of the killer slots and history counters
C15_CapturesFirst ==
    pc = "order" =>
       \A ply \in 0..MAX_DEPTH, i, j \in 1..Len(root.moves) :
          (IsCapture(board, root.moves[i]) /\ ~IsCapture(board, root.moves[j])) =>
             scoreMove(board, root.moves[i], ply, killerMoves, historyHeuristic) >
             scoreMove(board, root.moves[j], ply, killerMoves, historyHeuristic)
\* C21: in every alphaBeta call and node of a Move call, ply + depth is the
\* depth of the current iteration, which is 1..MAX_DEPTH; a node that orders
\* moves or updates killers has ply 1..MAX_DEPTH - 1, the root orders with
\* ply 0, and all of these index killerMoves inside 0..KILLER_PLIES - 1
C21_KillerIndexInRange ==
    /\ (pc = "call" \/ stack # <<>>) => root.depth \in 1..MAX_DEPTH
    /\ pc = "call" =>
          /\ call.ply + call.depth = root.depth
          /\ call.ply \in 1..MAX_DEPTH
          /\ call.depth >= 1 => call.ply \in DOMAIN killerMoves
    /\ \A i \in 1..Len(stack) :
          /\ stack[i].ply + stack[i].depth = root.depth
          /\ stack[i].ply = i
          /\ stack[i].ply \in 1..(MAX_DEPTH - 1)
          /\ stack[i].ply \in DOMAIN killerMoves
    /\ DOMAIN killerMoves = 0..(KILLER_PLIES - 1)

\* in the last iteration a non-capture is about to enter the killer slots
\* of the deepest ply a node can have
C21_Witness ==
    /\ root.depth = MAX_DEPTH /\ QuietRaise /\ Top.ply = MAX_DEPTH - 1 /\ Top.depth = 1
\* the budget of the running Move call is used up
Exceeded == elapsed >= timeLimitMsGlobal

\* C22: an alphaBeta call entered with the budget used up returns the static
\* evaluation of its position at once, whatever its depth: the position, the
\* transposition table, the killer slots, the history counters and the
\* stack of nodes are as before, so no slot is probed or stored and no move
\* generated or made for the search; and the budget, once used up, stays used
\* up until the Move call ends (the clock is read as one that never goes
\* back), so every later alphaBeta call of that Move returns this way
C22_TimeoutReturnsEvaluation ==
    [][/\ (pc = "call" /\ Exceeded) =>
             /\ pc' = "ret"
             /\ ret' = Returned(evaluate(board), "timeout")
             /\ board' = board
             /\ UNCHANGED <<transTable, killerMoves, historyHeuristic, stack, qstack>>
       /\ (Exceeded /\ calls' = calls) => (elapsed' >= timeLimitMsGlobal')]_vars

\* an alphaBeta call of depth 1 or more under a node is entered with the
\* budget used up, after an earlier call has returned through the time-out
C22_Witness ==
    /\ pc = "call" /\ Exceeded /\ call.depth >= 1 /\ stack # <<>>
    /\ ret.how = "timeout"
\* the mobility term as evaluate counts it for the side to move
MoverMobility(b) ==
    IF SideToMove(b) = "w" THEN evaluateMobility(b) ELSE -evaluateMobility(b)

\* C23: for the position at hand, whichever side is to move, the mobility
\* term of evaluate is twice the number of legal moves of the side to move
\* less the number the opponent has after a null move
C23_MobilityBothSides ==
    MoverMobility(board) =
        2 * (Len(LegalMoves(board)) - Len(LegalMoves(MakeNullMove(board))))
\* the number of pieces on the board
Pieces(b) == Cardinality({s \in Squares : b.sq[s] # "."})

InQuiescence == pc \in {"qcall", "qnode", "qret"}

\* C24: quiescence goes one call deeper only by a capture, which takes one
\* piece off the board, both kings always remaining, so the calls nested at
\* any time are bounded by the pieces of the position; and each call walks
\* its move list forwards only, so it makes at most one call per legal move
C24_QuiescenceTerminates ==
    /\ [][/\ (pc = "qnode" /\ pc' = "qcall") =>
                /\ Len(qstack') = Len(qstack)
                /\ IsCapture(board, qstack'[Len(qstack')].moves[qstack'[Len(qstack')].idx])
                /\ qstack'[Len(qstack')].idx >= QTop.idx
                /\ Pieces(board') = Pieces(board) - 1
          /\ (pc = "qret" /\ pc' = "qnode") =>
                /\ Len(qstack') = Len(qstack)
                /\ qstack'[Len(qstack')].idx = QTop.idx + 1
                /\ Pieces(board') = Pieces(board) + 1]_vars
    /\ [](InQuiescence =>
             /\ Pieces(board) >= 2
             /\ Len(qstack) + Pieces(board) <= Pieces(root.fen) + 1
             /\ \A i \in 1..Len(qstack) :
                   qstack[i].idx \in 1..(Len(qstack[i].moves) + 1))

\* two quiescence calls are nested: a capture is being searched inside the
\* search of another capture
C24_Witness == pc = "qnode" /\ Len(qstack) >= 2

\* call t is in its search while the other call u is under way
Interleaved(t, u) ==
    /\ t # u
    /\ pc[t] = "search"
    /\ pc[u] \in {"limit", "clear", "search"}

\* C25: two interleaved Move calls work on one clock start, one budget and
\* one table: a
\* call's time check compares the clock with the budget assigned last,
\* whichever call assigned it; a call's clearTT empties the slots the other
\* call stored in; a call's assignment of its budget takes effect while the
\* other call searches; and a call's start restarts the clock the other
\* call reads
C25_SearchStateShared ==
    [][\A t \in Threads, u \in Threads :
          /\ (pc[t] = "search" /\ root'[t].checks # root[t].checks) =>
                /\ root'[t].used = call.limit
                /\ (pc'[t] = "timeout") = (elapsed >= call.limit)
          /\ (Interleaved(t, u) /\ pc[u] = "clear" /\ pc'[u] = "search"
                /\ root[t].stored # -1) =>
                probeTT(transTable', root[t].stored).depth = -1
          /\ (Interleaved(t, u) /\ pc[u] = "limit" /\ pc'[u] = "clear") =>
                timeLimitMsGlobal' = root[u].limit
          /\ (pc[t] = "search" /\ pc[u] = "idle" /\ pc'[u] = "limit") =>
                elapsed' = 0]_vars

\* call t, given the long budget, has been timed out against the short
\* budget of the other call, and the entry it stored is gone from the table
C25_Witness ==
    \E t \in Threads, u \in Threads :
       /\ t # u
       /\ pc[t] = "timeout"
       /\ root[t].limit = MaxBudget
       /\ root[t].used = root[u].limit
       /\ root[u].limit = ShortBudget
       /\ elapsed < root[t].limit
       /\ root[t].stored # -1
       /\ probeTT(transTable, root[t].stored).depth = -1
       /\ pc[u] = "search"

\* the search of a root move has returned to the root loop for good: the
\* move is taken back and the clock read
RootJudges ==
    /\ pc = "ret"
    /\ stack = <<>>
    /\ ~(root.stage = "null" /\ -ret.score > root.alpha)

\* the root loop takes a score: it enters the log, and bestScore, bestMove
\* and alpha follow it
RootTakes ==
    /\ pc = "ret"
    /\ \/ root'.log # root.log
       \/ root'.bestMove # root.bestMove
       \/ root'.bestScore # root.bestScore
       \/ root'.alpha # root.alpha

\* C26: with a clock that never goes back, the root loop takes the score of
\* a root move only when the budget is not used up after the search of the
\* move has returned; an alphaBeta call returns through the time-out only
\* with the budget used up, and the budget once used up stays so until Move
\* returns, so no call of a search whose score is taken has timed out; a
\* root move judged with the budget used up leaves bestMove, bestScore and
\* alpha as they were, and the depth loop is left at its next time check
C26_NoAbortedScoreDecides ==
    [][/\ RootTakes =>
             /\ RootJudges
             /\ ~Exceeded
             /\ ret.how # "timeout"
             /\ root'.log = Append(root.log, [depth |-> root.depth,
                                              move |-> root.moves[root.idx],
                                              score |-> -ret.score])
       /\ (ret'.how = "timeout" /\ pc = "call") => Exceeded
       /\ (Exceeded /\ pc # "idle" /\ pc # "return") =>
             /\ elapsed' >= timeLimitMsGlobal'
             /\ root'.bestMove = root.bestMove
             /\ root'.bestScore = root.bestScore
             /\ root'.log = root.log
       /\ (RootJudges /\ Exceeded) => pc' = "depth"
       /\ (pc = "depth" /\ Exceeded) => pc' = "return"]_vars

\* at depth 2 or more the score of a root move has been taken in time as the
\* best, under one of the budgets that run out during the search
C26_Witness ==
    /\ pc = "root"
    /\ root.depth >= 2
    /\ root.log # <<>>
    /\ root.log[Len(root.log)].depth = root.depth
    /\ root.bestMove = root.log[Len(root.log)].move
    /\ root.limit <= MaxBudget
    /\ ~Exceeded

RECURSIVE quiescenceValue(_, _, _)
RECURSIVE quiescenceLoop(_, _, _, _, _)
RECURSIVE quiescenceTakes(_, _, _, _, _, _)
\* quiescence, l.463-491, as a function of the position and the window
quiescenceValue(b, alpha, beta) ==
    IF evaluate(b) >= beta THEN beta
    ELSE quiescenceLoop(b, LegalMoves(b), 1, Max(alpha, evaluate(b)), beta)

quiescenceLoop(b, moves, i, alpha, beta) ==
    IF i > Len(moves) THEN alpha
    ELSE IF ~IsCapture(b, moves[i]) THEN quiescenceLoop(b, moves, i + 1, alpha, beta)
    ELSE quiescenceTakes(b, moves, i, alpha, beta,
                         -quiescenceValue(MakeMove(b, moves[i]), -beta, -alpha))

quiescenceTakes(b, moves, i, alpha, beta, score) ==
    IF score >= beta THEN beta
    ELSE quiescenceLoop(b, moves, i + 1, Max(alpha, score), beta)

RECURSIVE negamax(_, _, _)
RECURSIVE negamaxOver(_, _, _, _, _, _)
\* plain negamax to the given depth: every move searched, no window, no
\* table, the leaves scored by quiescence on the full window and the ended
\* games as alphaBeta scores them
negamax(b, depth, ply) ==
    IF depth = 0 THEN quiescenceValue(b, -INF, INF)
    ELSE IF IsGameOver(b) # "NONE" THEN terminalScore(IsGameOver(b), ply)
    ELSE negamaxOver(b, LegalMoves(b), 1, depth, ply, -INF)

negamaxOver(b, moves, i, depth, ply, best) ==
    IF i > Len(moves) THEN best
    ELSE negamaxOver(b, moves, i + 1, depth, ply,
                     Max(best, -negamax(MakeMove(b, moves[i]), depth - 1, ply + 1)))

RECURSIVE NodeSlots(_, _)
RECURSIVE NodeSlotsOver(_, _, _, _)
\* the table slots of the nodes of the tree below b that alphaBeta probes and
\* stores in, one entry for each node
NodeSlots(b, depth) ==
    IF depth = 0 \/ IsGameOver(b) # "NONE" THEN <<>>
    ELSE <<SlotOf(Hash(b))>> \o NodeSlotsOver(b, LegalMoves(b), 1, depth)

NodeSlotsOver(b, moves, i, depth) ==
    IF i > Len(moves) THEN <<>>
    ELSE NodeSlots(MakeMove(b, moves[i]), depth - 1)
         \o NodeSlotsOver(b, moves, i + 1, depth)

\* no two nodes of the tree share a slot
SlotsApart(slots) == \A i, j \in 1..Len(slots) : slots[i] = slots[j] => i = j

\* v stands to the negamax value m as a search on the window (alpha, beta)
\* has to
WindowValue(v, m, alpha, beta) ==
    /\ (alpha < m /\ m < beta) => v = m
    /\ m <= alpha => v <= alpha
    /\ m >= beta => v >= beta

\* the alphaBeta call on root.fen has returned
PVSReturned == pc = "ret" /\ stack = <<>> /\ qstack = <<>>

\* C27: an alphaBeta call on a window alpha < beta, with the budget never
\* used up and no two nodes of its tree in one slot, returns the negamax
\* value of the position when that lies inside the window, a value of at
\* most alpha when it is at most alpha and a value of at least beta when it
\* is at least beta, whichever way moves of equal priority are ordered
C27_PVSRefinesNegamax ==
    (PVSReturned /\ ~Exceeded /\ root.alpha < root.beta
        /\ SlotsApart(NodeSlots(root.fen, root.depth))) =>
       WindowValue(ret.score, negamax(root.fen, root.depth, 1), root.alpha, root.beta)

\* a call of the greatest depth on a window narrower than the full one has
\* returned a value inside it, after a non-capture other than the first
\* move raised alpha at its node
C27_Witness ==
    /\ PVSReturned
    /\ ~Exceeded
    /\ root.depth = MaxPVSDepth
    /\ -INF < root.alpha
    /\ root.alpha < ret.score
    /\ ret.score < root.beta
    /\ ret.how = "node"
    /\ killerMoves[1][1] # NoMove
    /\ killerMoves[1][2] # NoMove
    /\ SlotsApart(NodeSlots(root.fen, root.depth))

====
